---- MODULE Spec2Model ----
(***************************************************************************)
(* Translation pipeline of the AI translation extension: the LRU           *)
(* translation cache (cache.ts), the rate limiter (rate-limiter.ts), the   *)
(* placeholder codec (utils.ts) and the batch translator                   *)
(* (batch-translator.ts) with the single-element path                      *)
(* (element-translator.ts).                                                *)
(*                                                                         *)
(* Strings are sequences of one-character strings, so that length, hash,   *)
(* split, trim and the regular expressions of the source are computed      *)
(* character by character.                                                 *)
(***************************************************************************)
EXTENDS Integers, Sequences, FiniteSets, TLC

(***************************************************************************)
(* Bounds of the model                                                     *)
(***************************************************************************)
CacheCapacity == 3

MaxOps == 3

MaxTime == 60

TimeStep == 5

StartTime == 5

(***************************************************************************)
(* Generic string helpers                                                  *)
(***************************************************************************)
None == "none"

RECURSIVE Concat(_)
Concat(ss) == IF ss = <<>> THEN <<>> ELSE Head(ss) \o Concat(Tail(ss))

\* JS Array.prototype.join on an array of strings
RECURSIVE Join(_, _)
Join(ss, sep) ==
  IF ss = <<>> THEN <<>>
  ELSE IF Len(ss) = 1 THEN ss[1]
  ELSE ss[1] \o sep \o Join(Tail(ss), sep)

\* s.slice(i - 1, j) in JS terms: the characters at 1-based positions i..j
Slice(s, i, j) == IF i > j THEN <<>> ELSE SubSeq(s, i, j)

\* TRUE iff pat occurs in s at 1-based position i
MatchAt(s, i, pat) ==
  /\ i + Len(pat) - 1 <= Len(s)
  /\ \A k \in 1..Len(pat) : s[i + k - 1] = pat[k]

IsSpace(c) == c \in {" ", "\n", "\t"}

RECURSIVE TrimStart(_)
TrimStart(s) ==
  IF s # <<>> /\ IsSpace(Head(s)) THEN TrimStart(Tail(s)) ELSE s

RECURSIVE TrimEnd(_)
TrimEnd(s) ==
  IF s # <<>> /\ IsSpace(s[Len(s)]) THEN TrimEnd(SubSeq(s, 1, Len(s) - 1)) ELSE s

\* String.prototype.trim
Trim(s) == TrimEnd(TrimStart(s))

\* the characters the model uses, and their ASCII codes
Chars ==
  {"\n", " ", "-", ".", "/", "0", "1", "2", "3", "4", "5", "6", "7",
   "8", "9", ":", "<", ">", "A", "B", "D", "E", "I", "L", "M", "R",
   "T", "X", "Y", "_", "a", "b", "c", "d", "i", "j", "k", "o", "p",
   "x", "y"}

CharCodes ==
  [c \in Chars |->
     CASE c = "\n" -> 10
       [] c = " " -> 32
       [] c = "-" -> 45
       [] c = "." -> 46
       [] c = "/" -> 47
       [] c = "0" -> 48
       [] c = "1" -> 49
       [] c = "2" -> 50
       [] c = "3" -> 51
       [] c = "4" -> 52
       [] c = "5" -> 53
       [] c = "6" -> 54
       [] c = "7" -> 55
       [] c = "8" -> 56
       [] c = "9" -> 57
       [] c = ":" -> 58
       [] c = "<" -> 60
       [] c = ">" -> 62
       [] c = "A" -> 65
       [] c = "B" -> 66
       [] c = "D" -> 68
       [] c = "E" -> 69
       [] c = "I" -> 73
       [] c = "L" -> 76
       [] c = "M" -> 77
       [] c = "R" -> 82
       [] c = "T" -> 84
       [] c = "X" -> 88
       [] c = "Y" -> 89
       [] c = "_" -> 95
       [] c = "a" -> 97
       [] c = "b" -> 98
       [] c = "c" -> 99
       [] c = "d" -> 100
       [] c = "i" -> 105
       [] c = "j" -> 106
       [] c = "k" -> 107
       [] c = "o" -> 111
       [] c = "p" -> 112
       [] c = "x" -> 120
       [] c = "y" -> 121]

\* charCodeAt
CharCode(c) == IF c \in Chars THEN CharCodes[c] ELSE 63

(***************************************************************************)
(* TranslationCache (cache.ts)                                             *)
(***************************************************************************)
Half == 65536

\* One step of the rolling hash for a character code, as a function of the
\* previous hash: hash = ((hash << 5) - hash) + char, then hash & hash
\* (ToInt32).  The 32-bit value is kept as two 16-bit halves <<hi, lo>>;
\* the step is 31 * hash + char modulo 2^32.
HashStep(code) ==
  [h \in (0..(Half - 1)) \X (0..(Half - 1)) |->
     LET lo == h[2] * 31 + code
         hi == h[1] * 31 + (lo \div Half)
     IN  <<hi % Half, lo % Half>>]

\* the value of hash after the first n characters of s
RECURSIVE HashFrom(_, _)
HashFrom(s, n) == IF n = 0 THEN <<0, 0>> ELSE HashStep(CharCode(s[n]))[HashFrom(s, n - 1)]

\* generateKey: hash of `${targetLanguage}:${text}`; toString(36) is
\* one-to-one on 32-bit integers, so the key is the 32-bit value itself.
generateKey(text, targetLanguage) ==
  LET combined == targetLanguage \o <<":">> \o text
  IN  HashFrom(combined, Len(combined))

\* The Map is a sequence of entries in insertion order.
CacheKeys(c) == {c[i].key : i \in 1..Len(c)}

CacheIndex(c, key) == CHOOSE i \in 1..Len(c) : c[i].key = key

CacheDelete(c, key) ==
  IF key \in CacheKeys(c)
  THEN LET i == CacheIndex(c, key)
       IN  SubSeq(c, 1, i - 1) \o SubSeq(c, i + 1, Len(c))
  ELSE c

\* Map.prototype.set: an existing key keeps its position, a new key goes last.
MapSet(c, key, value) ==
  IF key \in CacheKeys(c)
  THEN [c EXCEPT ![CacheIndex(c, key)] = [key |-> key, translatedText |-> value]]
  ELSE Append(c, [key |-> key, translatedText |-> value])

\* get without the recency refresh
CacheGetNoRefresh(c, text, targetLanguage) ==
  LET key == generateKey(text, targetLanguage)
  IN  IF key \in CacheKeys(c)
      THEN [value |-> c[CacheIndex(c, key)].translatedText, cache |-> c]
      ELSE [value |-> None, cache |-> c]

\* get(text, targetLanguage): the value (None for null) and the cache after it
CacheGet(c, text, targetLanguage) ==
  LET key == generateKey(text, targetLanguage)
  IN  IF key \in CacheKeys(c)
      THEN LET entry == c[CacheIndex(c, key)]
           IN  [value |-> entry.translatedText,
                cache |-> MapSet(CacheDelete(c, key), key, entry.translatedText)]
      ELSE [value |-> None, cache |-> c]

\* size()
CacheSize(c) == Len(c)

\* a set that makes room whenever the cache is full, known key or not
CacheSetEvictsKnown(c, maxSize, text, targetLanguage, translatedText) ==
  LET key == generateKey(text, targetLanguage)
      c1 == IF Len(c) >= maxSize /\ c # <<>> THEN Tail(c) ELSE c
  IN  MapSet(c1, key, translatedText)

\* set that evicts only once the capacity is exceeded
CacheSetLate(c, maxSize, text, targetLanguage, translatedText) ==
  LET key == generateKey(text, targetLanguage)
      c1 == IF Len(c) > maxSize /\ key \notin CacheKeys(c) /\ Len(c) > 0
            THEN CacheDelete(c, c[1].key)
            ELSE c
  IN  MapSet(c1, key, translatedText)

\* set(text, targetLanguage, translatedText) on a cache of capacity maxSize
CacheSet(c, maxSize, text, targetLanguage, translatedText) ==
  LET key == generateKey(text, targetLanguage)
      c1 == IF Len(c) >= maxSize /\ key \notin CacheKeys(c) /\ Len(c) > 0
            THEN CacheDelete(c, c[1].key)
            ELSE c
  IN  MapSet(c1, key, translatedText)

(***************************************************************************)
(* Placeholder codec (utils.ts)                                            *)
(***************************************************************************)
LowerLetters ==
  <<"a", "b", "c", "d", "e", "f", "g", "h", "i", "j", "k", "l", "m",
    "n", "o", "p", "q", "r", "s", "t", "u", "v", "w", "x", "y", "z">>

UpperLetters ==
  <<"A", "B", "C", "D", "E", "F", "G", "H", "I", "J", "K", "L", "M",
    "N", "O", "P", "Q", "R", "S", "T", "U", "V", "W", "X", "Y", "Z">>

DigitChars == <<"0", "1", "2", "3", "4", "5", "6", "7", "8", "9">>

Range(f) == {f[i] : i \in DOMAIN f}

IsDigit(c) == c \in Range(DigitChars)

IsLetter(c) == c \in Range(LowerLetters) \cup Range(UpperLetters)

\* toLowerCase of one character
LowerChar(c) ==
  IF c \in Range(UpperLetters)
  THEN LowerLetters[CHOOSE i \in 1..26 : UpperLetters[i] = c]
  ELSE c

Lower(s) == [i \in 1..Len(s) |-> LowerChar(s[i])]

\* String(n) for n >= 0
RECURSIVE ToDigits(_)
ToDigits(n) ==
  IF n < 10 THEN <<DigitChars[n + 1]>>
  ELSE ToDigits(n \div 10) \o <<DigitChars[(n % 10) + 1]>>

\* smallest position >= from holding c, 0 when there is none
RECURSIVE IndexOfChar(_, _, _)
IndexOfChar(s, c, from) ==
  IF from > Len(s) THEN 0
  ELSE IF s[from] = c THEN from
  ELSE IndexOfChar(s, c, from + 1)

\* first position >= i that is not white space
RECURSIVE SkipSpaces(_, _)
SkipSpaces(s, i) ==
  IF i <= Len(s) /\ IsSpace(s[i]) THEN SkipSpaces(s, i + 1) ELSE i

\* tag.replace(/^\//, '').split(/[\s>]/)[0].toLowerCase().replace(/[^a-z0-9]/g, '')
TagName(tag) ==
  LET t1 == IF tag # <<>> /\ Head(tag) = "/" THEN Tail(tag) ELSE tag
      stops == {i \in 1..Len(t1) : IsSpace(t1[i]) \/ t1[i] = ">"}
      cut == IF stops = {} THEN Len(t1)
             ELSE (CHOOSE i \in stops : \A j \in stops : i <= j) - 1
      t2 == Lower(SubSeq(t1, 1, cut))
  IN  SelectSeq(t2, LAMBDA c : c \in Range(LowerLetters) \/ IsDigit(c))

\* a placeholder that does not carry the index of the occurrence
MakePlaceholderUnnumbered(tag, index) ==
  (IF tag # <<>> /\ Head(tag) = "/" THEN <<"<", "/">> ELSE <<"<">>)
    \o TagName(tag) \o <<"_", "0", ">">>

\* the placeholder of the index-th tag occurrence
MakePlaceholder(tag, index) ==
  (IF tag # <<>> /\ Head(tag) = "/" THEN <<"<", "/">> ELSE <<"<">>)
    \o TagName(tag) \o <<"_">> \o ToDigits(index) \o <<">">>

\* html.replace(/<(\/?[^>]+)>/g, callback) scanning from position i
RECURSIVE EncodeFrom(_, _, _, _, _)
EncodeFrom(html, i, index, text, map) ==
  IF i > Len(html) THEN [text |-> text, map |-> map]
  ELSE LET close == IF html[i] = "<" THEN IndexOfChar(html, ">", i + 1) ELSE 0
       IN  IF close >= i + 2
           THEN LET ph == MakePlaceholder(SubSeq(html, i + 1, close - 1), index)
                IN  EncodeFrom(html, close + 1, index + 1, text \o ph,
                               Append(map, [placeholder |-> ph,
                                            original |-> SubSeq(html, i, close)]))
           ELSE EncodeFrom(html, i + 1, index, Append(text, html[i]), map)

\* htmlToPlaceholders(html): the text and the map (entries in insertion order)
htmlToPlaceholders(html) == EncodeFrom(html, 1, 0, <<>>, <<>>)

\* the replacement string of String.prototype.replace with its $ patterns
\* ($$, $&, $`, $') expanded for the match s[from..to]
RECURSIVE ExpandReplacement(_, _, _, _)
ExpandReplacement(repl, s, from, to) ==
  IF repl = <<>> THEN <<>>
  ELSE IF Head(repl) = "$" /\ Len(repl) >= 2 /\ repl[2] \in {"$", "&", "`", "'"}
  THEN (CASE repl[2] = "$" -> <<"$">>
          [] repl[2] = "&" -> SubSeq(s, from, to)
          [] repl[2] = "`" -> SubSeq(s, 1, from - 1)
          [] repl[2] = "'" -> SubSeq(s, to + 1, Len(s)))
       \o ExpandReplacement(SubSeq(repl, 3, Len(repl)), s, from, to)
  ELSE <<Head(repl)>> \o ExpandReplacement(Tail(repl), s, from, to)

\* s.replace(new RegExp(escapeRegExp(pat), 'g'), repl) from position i on
RECURSIVE ReplaceAllFrom(_, _, _, _)
ReplaceAllFrom(s, i, pat, repl) ==
  IF i > Len(s) THEN <<>>
  ELSE IF MatchAt(s, i, pat)
  THEN ExpandReplacement(repl, s, i, i + Len(pat) - 1)
         \o ReplaceAllFrom(s, i + Len(pat), pat, repl)
  ELSE <<s[i]>> \o ReplaceAllFrom(s, i + 1, pat, repl)

ReplaceAll(s, pat, repl) == IF pat = <<>> THEN s ELSE ReplaceAllFrom(s, 1, pat, repl)

\* placeholder.replace(/</g, '< ')
SpaceAfterOpen(ph) ==
  Concat([i \in 1..Len(ph) |-> IF ph[i] = "<" THEN <<"<", " ">> ELSE <<ph[i]>>])

\* placeholder.replace(/>/g, ' >')
SpaceBeforeClose(ph) ==
  Concat([i \in 1..Len(ph) |-> IF ph[i] = ">" THEN <<" ", ">">> ELSE <<ph[i]>>])

\* Array.from(map.keys()).sort((a, b) => b.length - a.length): stable,
\* longest first
RECURSIVE SortByLengthDesc(_)
SortByLengthDesc(map) ==
  IF map = <<>> THEN <<>>
  ELSE LET longest == CHOOSE i \in 1..Len(map) :
                        /\ \A j \in 1..Len(map) :
                             Len(map[j].placeholder) <= Len(map[i].placeholder)
                        /\ \A j \in 1..(i - 1) :
                             Len(map[j].placeholder) < Len(map[i].placeholder)
       IN  <<map[longest]>>
             \o SortByLengthDesc(SubSeq(map, 1, longest - 1)
                                   \o SubSeq(map, longest + 1, Len(map)))

\* the four replacements of one map entry (utils.ts 80-103)
ReplaceEntry(text, entry) ==
  LET ph == entry.placeholder
      r1 == ReplaceAll(text, ph, entry.original)
      r2 == ReplaceAll(r1, SpaceBeforeClose(SpaceAfterOpen(ph)), entry.original)
      r3 == ReplaceAll(r2, SpaceAfterOpen(ph), entry.original)
  IN  ReplaceAll(r3, SpaceBeforeClose(ph), entry.original)

RECURSIVE ReplaceEntries(_, _)
ReplaceEntries(text, entries) ==
  IF entries = <<>> THEN text
  ELSE ReplaceEntries(ReplaceEntry(text, Head(entries)), Tail(entries))

RECURSIVE SkipLetters(_, _)
SkipLetters(s, i) ==
  IF i <= Len(s) /\ IsLetter(s[i]) THEN SkipLetters(s, i + 1) ELSE i

RECURSIVE SkipDigits(_, _)
SkipDigits(s, i) ==
  IF i <= Len(s) /\ IsDigit(s[i]) THEN SkipDigits(s, i + 1) ELSE i

\* /<\s*\/?\s*[a-z]+_\d+\s*>/i at position i: the position of the closing
\* '>' of the match, 0 when there is no match at i
LeftoverEnd(s, i) ==
  IF i > Len(s) \/ s[i] # "<" THEN 0
  ELSE LET a == SkipSpaces(s, i + 1)
           b == IF a <= Len(s) /\ s[a] = "/" THEN SkipSpaces(s, a + 1) ELSE a
           \* without the optional '/', the white space was all taken by the first \s*
           c == SkipLetters(s, b)
           d == IF c > b /\ c <= Len(s) /\ s[c] = "_" THEN SkipDigits(s, c + 1) ELSE 0
           e == IF d > c + 1 THEN SkipSpaces(s, d) ELSE 0
       IN  IF e > 0 /\ e <= Len(s) /\ s[e] = ">" THEN e ELSE 0

\* the callback of the cleanup replace (utils.ts 108-119)
LeftoverReplacement(match, map) ==
  LET normalized == SelectSeq(match, LAMBDA c : ~IsSpace(c))
      same == {i \in 1..Len(map) : Lower(map[i].placeholder) = Lower(normalized)}
  IN  IF same = {} THEN <<>>
      ELSE map[CHOOSE i \in same : \A j \in same : i <= j].original

RECURSIVE CleanupFrom(_, _, _)
CleanupFrom(s, i, map) ==
  IF i > Len(s) THEN <<>>
  ELSE LET e == LeftoverEnd(s, i)
       IN  IF e > 0
           THEN LeftoverReplacement(SubSeq(s, i, e), map) \o CleanupFrom(s, e + 1, map)
           ELSE <<s[i]>> \o CleanupFrom(s, i + 1, map)

\* placeholdersToHtml(text, map)
placeholdersToHtml(text, map) ==
  CleanupFrom(ReplaceEntries(text, SortByLengthDesc(map)), 1, map)

(***************************************************************************)
(* BatchTranslator (batch-translator.ts): pure parts                       *)
(***************************************************************************)
\* config.maxCharactersPerBatch of the translator under study
MaxCharactersPerBatch == 32

\* DEFAULT_DELIMITER = '\n---DELIMITER---\n'
DEFAULT_DELIMITER ==
  <<"\n", "-", "-", "-", "D", "E", "L", "I", "M", "I", "T", "E", "R", "-", "-", "-", "\n">>

DelimiterWord == <<"D", "E", "L", "I", "M", "I", "T", "E", "R">>

\* the cache of the running extension: new TranslationCache() with maxSize 1000
DEFAULT_CACHE_SIZE == 1000

RECURSIVE SkipDashes(_, _)
SkipDashes(s, i) ==
  IF i <= Len(s) /\ s[i] = "-" THEN SkipDashes(s, i + 1) ELSE i

\* /\s*-{3,}DELIMITER-{3,}\s*/ at position i: the position after the match,
\* 0 when there is no match at i
DelimiterEnd(s, i) ==
  LET a == SkipSpaces(s, i)
      b == SkipDashes(s, a)
      c == IF b - a >= 3 /\ MatchAt(s, b, DelimiterWord) THEN b + Len(DelimiterWord) ELSE 0
      d == IF c > 0 THEN SkipDashes(s, c) ELSE 0
  IN  IF c > 0 /\ d - c >= 3 THEN SkipSpaces(s, d) ELSE 0

\* translatedText.split(delimiterPattern), scanning from position i with the
\* current segment starting at position from
RECURSIVE SplitFrom(_, _, _)
SplitFrom(s, i, from) ==
  IF i > Len(s) THEN <<Slice(s, from, Len(s))>>
  ELSE LET e == DelimiterEnd(s, i)
       IN  IF e > 0
           THEN <<Slice(s, from, i - 1)>> \o SplitFrom(s, e, e)
           ELSE SplitFrom(s, i + 1, from)

SplitResponse(text) == SplitFrom(text, 1, 1)

\* translations[i].trim(), i counted from 1
SegmentOther(translations, i) == Trim(translations[1])

SegmentFor(translations, i) == Trim(translations[i])

IsTerminator(c) == c \in {".", "!", "?"}

RECURSIVE SkipTerminators(_, _)
SkipTerminators(s, i) ==
  IF i <= Len(s) /\ IsTerminator(s[i]) THEN SkipTerminators(s, i + 1) ELSE i

RECURSIVE SkipNonTerminators(_, _)
SkipNonTerminators(s, i) ==
  IF i <= Len(s) /\ ~IsTerminator(s[i]) THEN SkipNonTerminators(s, i + 1) ELSE i

\* text.match(/[^.!?]+[.!?]+(\s+|$)/g), scanning from position i
RECURSIVE SentencesFrom(_, _)
SentencesFrom(s, i) ==
  IF i > Len(s) THEN <<>>
  ELSE IF IsTerminator(s[i]) THEN SentencesFrom(s, i + 1)
  ELSE LET q == SkipNonTerminators(s, i)
           r == SkipTerminators(s, q)
       IN  IF q > Len(s) THEN <<>>
           ELSE IF r > Len(s) THEN <<SubSeq(s, i, Len(s))>>
           ELSE IF IsSpace(s[r])
           THEN LET e == SkipSpaces(s, r)
                IN  <<SubSeq(s, i, e - 1)>> \o SentencesFrom(s, e)
           ELSE SentencesFrom(s, r)

\* the sentence loop of splitOversizedItem: the chunk texts
RECURSIVE SentenceChunks(_, _, _)
SentenceChunks(sentences, currentChunk, maxSize) ==
  IF sentences = <<>>
  THEN IF Trim(currentChunk) # <<>> THEN <<Trim(currentChunk)>> ELSE <<>>
  ELSE IF currentChunk # <<>> /\ Len(currentChunk) + Len(Head(sentences)) > maxSize
  THEN <<Trim(currentChunk)>> \o SentenceChunks(Tail(sentences), Head(sentences), maxSize)
  ELSE SentenceChunks(Tail(sentences), currentChunk \o Head(sentences), maxSize)

\* the forced split: text.slice(i, i + chunkSize) for i = 0, chunkSize, ...
RECURSIVE ForcedChunks(_, _)
ForcedChunks(text, chunkSize) ==
  IF text = <<>> THEN <<>>
  ELSE IF Len(text) <= chunkSize THEN <<text>>
  ELSE <<SubSeq(text, 1, chunkSize)>>
         \o ForcedChunks(SubSeq(text, chunkSize + 1, Len(text)), chunkSize)

\* a split by raw offsets only
ChunkTextsForced(text, maxChars) == ForcedChunks(text, (maxChars * 9) \div 10)

\* the chunk texts of splitOversizedItem for an item's placeholderText
ChunkTexts(text, maxChars) ==
  LET found == SentencesFrom(text, 1)
      sentences == IF found = <<>> THEN <<text>> ELSE found
      maxSize == (maxChars * 9) \div 10
      chunks == SentenceChunks(sentences, <<>>, maxSize)
  IN  IF Len(chunks) = 1 /\ Len(chunks[1]) > maxChars
      THEN ForcedChunks(chunks[1], maxSize)
      ELSE chunks

\* splitOversizedItem(item) with the chunk id drawn for it
splitOversizedItem(item, chunkId) ==
  LET texts == ChunkTexts(item.placeholderText, MaxCharactersPerBatch)
  IN  IF texts = <<>> THEN <<item>>
      ELSE [i \in 1..Len(texts) |->
              [item EXCEPT !.placeholderText = texts[i], !.chunkId = chunkId,
                           !.chunkIndex = i - 1, !.totalChunks = Len(texts)]]

\* the budget test that ignores what the item adds
ExceedsBudgetLoose(currentSize, totalItemSize) == currentSize > MaxCharactersPerBatch

\* a budget test that never closes a batch
ExceedsBudgetNever(currentSize, totalItemSize) == FALSE

\* a budget test that closes every batch after one unit
ExceedsBudgetAlways(currentSize, totalItemSize) == TRUE

\* currentSize + totalItemSize > this.config.maxCharactersPerBatch
ExceedsBudget(currentSize, totalItemSize) ==
  currentSize + totalItemSize > MaxCharactersPerBatch

\* the batching loop of createBatches over the uncached items; chunk ids are
\* drawn from nextId on
RECURSIVE BatchLoop(_, _, _, _, _)
BatchLoop(items, batches, currentBatch, currentSize, nextId) ==
  IF items = <<>>
  THEN [batches |-> IF currentBatch # <<>> THEN Append(batches, currentBatch) ELSE batches,
        nextId |-> nextId]
  ELSE LET item == Head(items)
           itemLength == Len(item.placeholderText)
           delimiterLength == IF currentBatch # <<>> THEN Len(DEFAULT_DELIMITER) ELSE 0
           totalItemSize == itemLength + delimiterLength
           close == currentBatch # <<>> /\ ExceedsBudget(currentSize, totalItemSize)
           batches1 == IF close THEN Append(batches, currentBatch) ELSE batches
           batch1 == IF close THEN <<>> ELSE currentBatch
           size1 == IF close THEN 0 ELSE currentSize
       IN  IF batch1 = <<>> /\ itemLength > MaxCharactersPerBatch
           THEN LET chunks == splitOversizedItem(item, nextId)
                IN  BatchLoop(Tail(items),
                              batches1 \o [i \in 1..Len(chunks) |-> <<chunks[i]>>],
                              batch1, size1, nextId + 1)
           ELSE BatchLoop(Tail(items), batches1, Append(batch1, item),
                          size1 + (IF batch1 = <<>> THEN itemLength ELSE totalItemSize),
                          nextId)

\* batch.map(item => item.placeholderText).join(this.config.batchDelimiter)
BatchText(batch) ==
  Join([i \in 1..Len(batch) |-> batch[i].placeholderText], DEFAULT_DELIMITER)

\* An array made by new Array(n) has n empty slots.  Array.prototype.every
\* calls its predicate for assigned indexes only and skips empty slots, and
\* join writes an empty slot as the empty string.
Hole == "hole"

Undefined == "undefined"

NewArray(n) == [i \in 1..n |-> Hole]

\* chunks.every(chunk => chunk !== undefined)
EveryChunkDefined(chunks) ==
  \A i \in 1..Len(chunks) : chunks[i] # Hole => chunks[i] # Undefined

\* chunks.join(' ')
JoinChunks(chunks) ==
  Join([i \in 1..Len(chunks) |-> IF chunks[i] = Hole THEN <<>> ELSE chunks[i]], <<" ">>)

(***************************************************************************)
(* RateLimiter (rate-limiter.ts)                                           *)
(***************************************************************************)
TickMs == 10

RpsValues == {50, 100}

\* now - lastProcessTime >= 1000 / rps, for rps > 0, without fractions
IntervalElapsedAlways(elapsed, r) == TRUE

IntervalElapsed(elapsed, r) == elapsed * r >= 1000

\* queue.unshift in place of queue.push
QueueUnshift(q, task) == <<task>> \o q

\* this.queue.push(task)
QueuePush(q, task) == Append(q, task)

VARIABLES
  cache,            \* translationCache: sequence of [key, translatedText]
  recency,          \* ghost: cache keys, least recently read or inserted first
  lastCacheOp,      \* ghost: what the last cache operation did
  stored,           \* ghost: the <<text, language>> pairs set() was called with
                    \* since the cache was last empty
  now,              \* Date.now()
  queue,            \* RateLimiter.queue: ids of the queued operations
  lastProcessTime,  \* RateLimiter.lastProcessTime
  intervalId,       \* RateLimiter.intervalId: TRUE while the interval timer is set
  intervalRps,      \* the rps the running timer's closure computed intervalMs from
  nextTick,         \* earliest time of the timer's next callback
  rps,              \* RateLimiter.rps
  dispatched,       \* ghost: the dispatches, in order: [op, time, rps]
  nextOp,           \* ghost: id of the next submitted operation
  settled,          \* ghost: the promises of execute that have settled: [op, state, value]
  cleared,          \* ghost: what the last clearQueue() found and dropped
  innerHTML,        \* element.innerHTML of every element of the page
  dataTranslated,   \* element.hasAttribute('data-translated')
  dataOriginalHtml, \* the data-original-html attribute, None when absent
  dataFailed,       \* element.hasAttribute('data-translation-failed')
  chunkTranslations,\* BatchTranslator.chunkTranslations: chunkId -> array
  nextChunkId,      \* the next fresh chunk id
  pc,               \* "idle", "batch" (translateElements awaits a batch response)
                    \* or "element" (translateElement awaits its response)
  batches,          \* the batches of the running pass not yet answered
  pending,          \* the item translateElement awaits the response for
  calls,            \* number of translateElements / translateElement calls so far
  page,             \* ghost: the markup every element started with
  requests,         \* ghost: the texts of the requests of the running or last call
  lastPass,         \* ghost: what the last translateElements call prepared
  lastResponse,     \* ghost: the last batch response and what it was applied to
  chunkSegments,    \* ghost: chunkId -> the segments received for its chunks
  whole,            \* ghost: element -> complete translations obtained for it
  transportFailed,  \* ghost: batches of the running or last call whose request failed
  loop,             \* where the running pass is: batches requested, and the position
                    \* of the per-unit loop in the catch block of processBatch
  fnInput,          \* the argument a function is called with on its own
  fnOutput,         \* [called, value]: whether it was called and what it returned
  isTranslating,    \* content.ts: the flag translatePage sets and clears
  translatePageAt,  \* where the running translatePage call is: "none", "storage"
                    \* (awaits chrome.storage.local.get) or "elements" (awaits
                    \* translateElements)
  translationObserver, \* content.ts: the current observer, 0 for null
  observers,        \* the observers created so far, each with the state of its
                    \* closure: [observed, connected, pendingElements, batchTimeout]
  translatedElements, \* content.ts: the WeakSet of elements handed to a pass
  passes,           \* the translateElements calls of the content script that
                    \* await a batch response: [id, by, els, batches]
  replies,          \* ghost: the status every settled translatePage call returned
  storageReads,     \* ghost: number of chrome.storage.local.get calls
  passLog,          \* ghost: every translateElements call of the content script:
                    \* [by, els, prepared]
  sentLog           \* ghost: every batch request: [pass, elements]

cacheVars == <<cache, recency, lastCacheOp, stored>>

rlVars == <<now, queue, lastProcessTime, intervalId, intervalRps, nextTick, rps,
            dispatched, nextOp, settled, cleared>>

btVars == <<innerHTML, dataTranslated, dataOriginalHtml, dataFailed, chunkTranslations,
            nextChunkId, pc, batches, pending, calls, page, requests,
            lastPass, lastResponse, chunkSegments, whole, transportFailed, loop>>

fnVars == <<fnInput, fnOutput>>

contentVars == <<isTranslating, translatePageAt, translationObserver, observers,
                 translatedElements, passes, replies, storageReads, passLog, sentLog>>

vars == <<cache, recency, lastCacheOp, stored, now, queue, lastProcessTime, intervalId,
          intervalRps, nextTick, rps, dispatched, nextOp, settled, cleared, innerHTML, dataTranslated,
          dataOriginalHtml, dataFailed, chunkTranslations, nextChunkId, pc, batches,
          pending, calls, page, requests, lastPass, lastResponse, chunkSegments,
          whole, transportFailed, loop, fnInput, fnOutput, isTranslating,
          translatePageAt, translationObserver, observers, translatedElements,
          passes, replies, storageReads, passLog, sentLog>>

\* the content script as loaded: no translatePage call, no observer
IdleContent ==
  /\ isTranslating = FALSE
  /\ translatePageAt = "none"
  /\ translationObserver = 0
  /\ observers = <<>>
  /\ translatedElements = {}
  /\ passes = <<>>
  /\ replies = <<>>
  /\ storageReads = 0
  /\ passLog = <<>>
  /\ sentLog = <<>>

(***************************************************************************)
(* Inputs of the cache operations                                          *)
(***************************************************************************)
CacheInputs ==
  {<<(<<"a">>), (<<"j", "a">>)>>, <<(<<"b">>), (<<"j", "a">>)>>,
   <<(<<"c">>), (<<"j", "a">>)>>, <<(<<"d">>), (<<"j", "a">>)>>,
   <<(<<"a">>), (<<"k", "o">>)>>}

CacheValues == {<<"x">>, <<"y">>}

NoCacheOp ==
  [op |-> "none", key |-> None, wasFront |-> FALSE, isNew |-> FALSE, wasFull |-> FALSE,
   evicted |-> {}, lru |-> None, prevHit |-> None, prevHitWasFront |-> FALSE]

\* ghost: key becomes the most recently used one
Touch(rec, key) == SelectSeq(rec, LAMBDA k : k # key) \o <<key>>

InitCache ==
  /\ cache = <<>>
  /\ recency = <<>>
  /\ lastCacheOp = NoCacheOp
  /\ stored = {}

\* cache.get(text, targetLanguage)
CacheGetOp(text, lang) ==
  LET key == generateKey(text, lang)
      r == CacheGet(cache, text, lang)
      hit == key \in CacheKeys(cache)
  IN  /\ cache' = r.cache
      /\ recency' = IF hit THEN Touch(recency, key) ELSE recency
      /\ lastCacheOp' = IF hit
                        THEN [NoCacheOp EXCEPT !.op = "get", !.key = key,
                                               !.wasFront = (cache[1].key = key)]
                        ELSE [NoCacheOp EXCEPT !.op = "get"]
      /\ stored' = stored

\* cache.set(text, targetLanguage, translatedText)
CacheSetOp(text, lang, value) ==
  LET key == generateKey(text, lang)
      c2 == CacheSet(cache, CacheCapacity, text, lang, value)
      isNew == key \notin CacheKeys(cache)
      wasFull == Len(cache) >= CacheCapacity
      gone == CacheKeys(cache) \ CacheKeys(c2)
      kept == SelectSeq(recency, LAMBDA k : k \notin gone)
  IN  /\ cache' = c2
      /\ recency' = IF isNew THEN kept \o <<key>> ELSE kept
      /\ lastCacheOp' =
           IF isNew /\ wasFull
           THEN [NoCacheOp EXCEPT !.op = "set", !.isNew = TRUE,
                   !.wasFull = TRUE, !.evicted = gone,
                   !.lru = IF recency = <<>> THEN None ELSE Head(recency),
                   !.prevHit = IF lastCacheOp.op = "get" THEN lastCacheOp.key ELSE None,
                   !.prevHitWasFront = (lastCacheOp.op = "get" /\ lastCacheOp.wasFront)]
           ELSE [NoCacheOp EXCEPT !.op = "set", !.isNew = isNew, !.wasFull = wasFull,
                   !.evicted = gone]
      /\ stored' = stored \cup {<<text, lang>>}

\* cache.clear()
CacheClearOp ==
  /\ cache # <<>>
  /\ cache' = <<>>
  /\ recency' = <<>>
  /\ lastCacheOp' = [NoCacheOp EXCEPT !.op = "clear"]
  /\ stored' = {}

(***************************************************************************)
(* RateLimiter operations                                                  *)
(***************************************************************************)
\* the operations dispatched so far
DispatchedOps == {dispatched[i].op : i \in 1..Len(dispatched)}

SettledOps == {s.op : s \in settled}

\* how fn() of the operation ends, which the caller's function decides:
\* its promise resolves with a value, its promise rejects with an error,
\* or it throws the error before it returns a promise
FnEnd(op) ==
  CASE op % 3 = 1 -> [kind |-> "resolves", value |-> 10 + op]
    [] op % 3 = 2 -> [kind |-> "rejects", value |-> 20 + op]
    [] OTHER -> [kind |-> "throws", value |-> 20 + op]

\* a task without the catch: an error of fn settles nothing the caller
\* sees as a rejection
TaskSwallows(end) == [state |-> "fulfilled", value |-> end.value]

\* the queued task: try { resolve(await fn()) } catch (error) { reject(error) }
TaskSettles(end) ==
  IF end.kind = "resolves"
  THEN [state |-> "fulfilled", value |-> end.value]
  ELSE [state |-> "rejected", value |-> end.value]

\* how the promise of execute settles for the operation
FnOutcome(op) == TaskSettles(FnEnd(op)).state

NotCleared == [halted |-> FALSE, dropped |-> {}, count |-> 0, inFlight |-> {}]

InitRateLimiter ==
  /\ now = StartTime
  /\ queue = <<>>
  /\ lastProcessTime = 0
  /\ intervalId = FALSE
  /\ rps \in RpsValues
  /\ intervalRps = rps
  /\ nextTick = 0
  /\ dispatched = <<>>
  /\ nextOp = 1
  /\ settled = {}
  /\ cleared = NotCleared

\* processQueue() entered with queue q, timer state iid and this.rps = r;
\* the values of the fields when it returns.
processQueue(q, iid, r) ==
  IF q = <<>>
  THEN [queue |-> q, lastProcessTime |-> lastProcessTime, intervalId |-> FALSE,
        intervalRps |-> intervalRps, nextTick |-> nextTick, dispatched |-> dispatched]
  ELSE IF ~iid
  THEN LET first == lastProcessTime = 0 \/ IntervalElapsed(now - lastProcessTime, r)
       IN  [queue |-> IF first THEN Tail(q) ELSE q,
            lastProcessTime |-> IF first THEN now ELSE lastProcessTime,
            intervalId |-> TRUE,
            intervalRps |-> r,
            nextTick |-> now + TickMs,
            dispatched |-> IF first
                           THEN Append(dispatched, [op |-> Head(q), time |-> now, rps |-> r])
                           ELSE dispatched]
  ELSE [queue |-> q, lastProcessTime |-> lastProcessTime, intervalId |-> iid,
        intervalRps |-> intervalRps, nextTick |-> nextTick, dispatched |-> dispatched]

SetRateLimiter(st) ==
  /\ queue' = st.queue
  /\ lastProcessTime' = st.lastProcessTime
  /\ intervalId' = st.intervalId
  /\ intervalRps' = st.intervalRps
  /\ nextTick' = st.nextTick
  /\ dispatched' = st.dispatched

\* the body of execute(fn): enqueue the operation and run processQueue
Enqueue ==
  /\ SetRateLimiter(processQueue(QueuePush(queue, nextOp), intervalId, rps))
  /\ nextOp' = nextOp + 1
  /\ cleared' = [cleared EXCEPT !.halted = FALSE]
  /\ UNCHANGED <<now, rps, settled>>

\* execute(fn), for a bounded number of operations
Execute ==
  /\ nextOp <= MaxOps
  /\ Enqueue

\* an updateRPS that leaves a running timer alone
UpdateRPSKeepsTimer(r) ==
  /\ rps' = r
  /\ SetRateLimiter(processQueue(queue, intervalId, r))
  /\ cleared' = [cleared EXCEPT !.halted = FALSE]
  /\ UNCHANGED <<now, nextOp, settled>>

\* updateRPS(r): set rps, clear the timer, run processQueue
UpdateRPS(r) ==
  /\ rps' = r
  /\ SetRateLimiter(processQueue(queue, FALSE, r))
  /\ cleared' = [cleared EXCEPT !.halted = FALSE]
  /\ UNCHANGED <<now, nextOp, settled>>

\* a timer callback that clears the timer after every dispatch, whatever
\* is left in the queue
IntervalTickStops ==
  /\ intervalId
  /\ now >= nextTick
  /\ LET go == IntervalElapsed(now - lastProcessTime, intervalRps) /\ queue # <<>>
         q2 == IF go THEN Tail(queue) ELSE queue
     IN  /\ queue' = q2
         /\ lastProcessTime' = IF go THEN now ELSE lastProcessTime
         /\ dispatched' = IF go
                          THEN Append(dispatched, [op |-> Head(queue), time |-> now, rps |-> rps])
                          ELSE dispatched
         /\ intervalId' = (q2 # <<>> /\ ~go)
  /\ nextTick' = now + TickMs
  /\ UNCHANGED <<now, intervalRps, rps, nextOp, settled, cleared>>

\* the setInterval callback of processQueue
IntervalTick ==
  /\ intervalId
  /\ now >= nextTick
  /\ LET go == IntervalElapsed(now - lastProcessTime, intervalRps) /\ queue # <<>>
         q2 == IF go THEN Tail(queue) ELSE queue
     IN  /\ queue' = q2
         /\ lastProcessTime' = IF go THEN now ELSE lastProcessTime
         /\ dispatched' = IF go
                          THEN Append(dispatched, [op |-> Head(queue), time |-> now, rps |-> rps])
                          ELSE dispatched
         /\ intervalId' = (q2 # <<>>)
  /\ nextTick' = now + TickMs
  /\ UNCHANGED <<now, intervalRps, rps, nextOp, settled, cleared>>

\* what clearQueue() found: the backlog, the dispatches so far and the
\* operations still running
ClearedNow ==
  [halted |-> TRUE, dropped |-> cleared.dropped \cup Range(queue),
   count |-> Len(dispatched), inFlight |-> DispatchedOps \ SettledOps]

\* a clearQueue that stops the timer and keeps the backlog
ClearQueueKeepsBacklog ==
  /\ intervalId' = FALSE
  /\ cleared' = ClearedNow
  /\ UNCHANGED <<now, queue, lastProcessTime, intervalRps, nextTick, rps, dispatched,
                 nextOp, settled>>

\* a clearQueue that rejects the promises of the operations it drops
ClearQueueRejects ==
  /\ queue' = <<>>
  /\ intervalId' = FALSE
  /\ cleared' = ClearedNow
  /\ settled' = settled \cup {[op |-> op, state |-> "rejected", value |-> 0] :
                                 op \in Range(queue)}
  /\ UNCHANGED <<now, lastProcessTime, intervalRps, nextTick, rps, dispatched, nextOp>>

\* clearQueue()
ClearQueue ==
  /\ queue' = <<>>
  /\ intervalId' = FALSE
  /\ cleared' = ClearedNow
  /\ UNCHANGED <<now, lastProcessTime, intervalRps, nextTick, rps, dispatched, nextOp,
                 settled>>

\* fn() of a dispatched operation ends and the queued task resolves or
\* rejects the promise of execute with it (rate-limiter.ts 14-19)
Complete(op) ==
  /\ op \in DispatchedOps \ SettledOps
  /\ settled' = settled \cup {[op |-> op, state |-> FnOutcome(op),
                                value |-> TaskSettles(FnEnd(op)).value]}
  /\ UNCHANGED <<now, queue, lastProcessTime, intervalId, intervalRps, nextTick, rps,
                 dispatched, nextOp, cleared>>

\* wall-clock time passes
Advance ==
  /\ now + TimeStep <= MaxTime
  /\ now' = now + TimeStep
  /\ UNCHANGED <<queue, lastProcessTime, intervalId, intervalRps, nextTick, rps,
                 dispatched, nextOp, settled, cleared>>

(***************************************************************************)
(* The page and the remote endpoint                                        *)
(***************************************************************************)
NumElements == 3

Elements == 1..NumElements

MaxCalls == 2

\* settings.targetLanguage
TargetLanguage == <<"j", "a">>

ShortText == <<"a", ".">>

TaggedText == <<"<", "b", ">", "c", "<", "/", "b", ">">>

\* 35 characters, nine sentences
LongText ==
  <<"a", "a", ".", " ", "b", "b", ".", " ", "a", "a", ".", " ", "b", "b", ".", " ",
    "a", "a", ".", " ", "b", "b", ".", " ", "a", "a", ".", " ", "b", "b", ".", " ",
    "a", "b", ".">>

\* a page whose first elements carry the given texts, the others ShortText
PageOf(texts) == [e \in Elements |-> IF e <= Len(texts) THEN texts[e] ELSE ShortText]

Pages ==
  {PageOf(<<ShortText, TaggedText, ShortText>>),
   PageOf(<<LongText, <<" ">>, ShortText>>)}

\* the element lists a caller passes to translateElements: the elements
\* from a to b, in document order
ElementLists ==
  {[i \in 1..(b - a + 1) |-> a + i - 1] : a \in Elements, b \in Elements} \ {<<>>}

FlexibleDelimiter ==
  <<" ", "-", "-", "-", "-">> \o DelimiterWord \o <<"-", "-", "-", " ">>

\* what translateText resolves to: an error value (network failure or
\* non-success status), or the content of the first choice ('' when absent)
ErrorResponse == [error |-> TRUE, translatedText |-> <<>>]

ResponseTexts ==
  {<<>>,
   <<" ">>,
   <<"X">>,
   <<"<", "b", "_", "0", ">", "Y", "<", "/", "b", "_", "1", ">">>,
   <<"X">> \o DEFAULT_DELIMITER \o <<"Y">>,
   <<"X">> \o FlexibleDelimiter \o <<"Y">> \o DEFAULT_DELIMITER \o <<"X">>}

Responses ==
  {ErrorResponse} \cup {[error |-> FALSE, translatedText |-> t] : t \in ResponseTexts}

\* JS truthiness of a string or null
Truthy(v) == v # None /\ v # <<>>

(***************************************************************************)
(* BatchTranslator: translateElements and the response of a batch          *)
(***************************************************************************)
NoPass == [kind |-> None, els |-> <<>>, failedBefore |-> {}, prepared |-> {},
           present |-> {}, uncached |-> {}]

NoResponse == [ok |-> FALSE, units |-> <<>>, segments |-> <<>>, before |-> <<>>,
               setCalls |-> {}]

\* planned: number of batches of the pass; requested: the batches whose
\* request was made, by number; units: the elements of the batch the
\* per-unit loop runs over; index: the unit whose response is awaited, 0
\* outside the loop; attempted: the elements processSingleItem was called
\* for; done: the loop has run to its end
NoLoop == [planned |-> 0, requested |-> <<>>, units |-> <<>>, index |-> 0,
           attempted |-> <<>>, done |-> FALSE]

\* the page as loaded: nothing marked, no pass started
FreshPage ==
  /\ innerHTML = page
  /\ dataTranslated = [e \in Elements |-> FALSE]
  /\ dataOriginalHtml = [e \in Elements |-> None]
  /\ dataFailed = [e \in Elements |-> FALSE]
  /\ chunkTranslations = <<>>
  /\ nextChunkId = 1
  /\ pc = "idle"
  /\ batches = <<>>
  /\ pending = None
  /\ calls = 0
  /\ requests = <<>>
  /\ lastPass = NoPass
  /\ lastResponse = NoResponse
  /\ chunkSegments = <<>>
  /\ whole = [e \in Elements |-> {}]
  /\ transportFailed = {}
  /\ loop = NoLoop

InitPage ==
  /\ page \in Pages
  /\ FreshPage

\* a test that lets empty elements through
PreparableEmpty(e) ==
  /\ ~dataTranslated[e]
  /\ dataOriginalHtml[e] = None

\* a test that takes an element again while its translation is awaited
PreparableAgain(e) ==
  /\ ~dataTranslated[e]
  /\ Trim(innerHTML[e]) # <<>>

\* the test of prepareTranslationItems: the element becomes an item
Preparable(e) ==
  /\ ~dataTranslated[e]
  /\ dataOriginalHtml[e] = None
  /\ Trim(innerHTML[e]) # <<>>

\* the item prepareTranslationItems pushes for element e
MakeItem(e) ==
  LET enc == htmlToPlaceholders(innerHTML[e])
  IN  [element |-> e, originalHTML |-> innerHTML[e], placeholderText |-> enc.text,
       placeholderMap |-> enc.map, chunkId |-> 0, chunkIndex |-> 0, totalChunks |-> 0]

prepareTranslationItems(els) ==
  LET kept == SelectSeq(els, Preparable)
  IN  [i \in 1..Len(kept) |-> MakeItem(kept[i])]

\* the cache loop of createBatches: the cache after the lookups, the items
\* served from it (with the value) and the others; found (ghost) holds the
\* elements whose key the cache had
RECURSIVE CacheLoop(_, _, _, _, _)
CacheLoop(items, c, hits, uncachedItems, found) ==
  IF items = <<>>
  THEN [cache |-> c, hits |-> hits, uncachedItems |-> uncachedItems, found |-> found]
  ELSE LET r == CacheGet(c, Head(items).placeholderText, TargetLanguage)
           found1 == IF r.value # None THEN found \cup {Head(items).element} ELSE found
       IN  IF Truthy(r.value)
           THEN CacheLoop(Tail(items), r.cache,
                          Append(hits, [item |-> Head(items), value |-> r.value]),
                          uncachedItems, found1)
           ELSE CacheLoop(Tail(items), r.cache, hits, Append(uncachedItems, Head(items)),
                          found1)

ItemElements(items) == {items[i].element : i \in 1..Len(items)}

HitFor(hits, e) == hits[CHOOSE i \in 1..Len(hits) : hits[i].item.element = e]

\* translateElements(elements, settings) up to the first await: the items
\* are prepared, cached ones applied, the batches planned and the first
\* batch sent
TranslateElements(els) ==
  /\ pc = "idle"
  /\ calls < MaxCalls
  /\ LET items == prepareTranslationItems(els)
         prepared == ItemElements(items)
         looked == CacheLoop(items, cache, <<>>, <<>>, {})
         hitEls == ItemElements([i \in 1..Len(looked.hits) |-> looked.hits[i].item])
         plan == BatchLoop(looked.uncachedItems, <<>>, <<>>, 0, nextChunkId)
     IN  /\ dataOriginalHtml' =
              [e \in Elements |-> IF e \in prepared THEN innerHTML[e]
                                  ELSE dataOriginalHtml[e]]
         /\ cache' = looked.cache
         /\ innerHTML' =
              [e \in Elements |->
                 IF e \in hitEls
                 THEN placeholdersToHtml(HitFor(looked.hits, e).value,
                                         HitFor(looked.hits, e).item.placeholderMap)
                 ELSE innerHTML[e]]
         /\ dataTranslated' = [e \in Elements |-> dataTranslated[e] \/ e \in hitEls]
         /\ whole' = [e \in Elements |->
                        IF e \in hitEls THEN whole[e] \cup {HitFor(looked.hits, e).value}
                        ELSE whole[e]]
         /\ batches' = plan.batches
         /\ nextChunkId' = plan.nextId
         /\ pc' = IF plan.batches = <<>> THEN "idle" ELSE "batch"
         /\ requests' = IF plan.batches = <<>> THEN <<>>
                        ELSE <<BatchText(plan.batches[1])>>
         /\ lastPass' =
              [kind |-> "batch", els |-> els,
               failedBefore |-> {e \in Range(els) : dataFailed[e] /\ ~dataTranslated[e]},
               prepared |-> prepared,
               present |-> looked.found,
               uncached |-> ItemElements(looked.uncachedItems)]
         /\ loop' = [NoLoop EXCEPT
                       !.planned = Len(plan.batches),
                       !.requested = IF plan.batches = <<>> THEN <<>> ELSE <<1>>]
  /\ calls' = calls + 1
  /\ lastResponse' = NoResponse
  /\ transportFailed' = {}
  /\ UNCHANGED <<dataFailed, chunkTranslations, pending, page, chunkSegments>>

IsChunk(item) == item.chunkId # 0 /\ item.totalChunks > 1

ArrayOf(arrays, id, n) == IF id \in DOMAIN arrays THEN arrays[id] ELSE NewArray(n)

WithArray(arrays, id, arr) ==
  [k \in DOMAIN arrays \cup {id} |-> IF k = id THEN arr ELSE arrays[k]]

WithoutArray(arrays, id) == [k \in DOMAIN arrays \ {id} |-> arrays[k]]

\* the element gets its translation (batch-translator.ts 553-557)
Applied(st, item, translation) ==
  [st EXCEPT
     !.innerHTML[item.element] = placeholdersToHtml(translation, item.placeholderMap),
     !.dataTranslated[item.element] = TRUE,
     !.dataFailed[item.element] = FALSE]

\* one round of the loop "Apply translations to elements" for batch[i]
ApplySegment(st, item, translation, i) ==
  IF translation # <<>>
  THEN IF IsChunk(item)
       THEN LET chunks == [ArrayOf(st.chunkTranslations, item.chunkId, item.totalChunks)
                             EXCEPT ![item.chunkIndex + 1] = translation]
                seen == [ArrayOf(st.chunkSegments, item.chunkId, item.totalChunks)
                           EXCEPT ![item.chunkIndex + 1] = translation]
                st1 == [st EXCEPT
                          !.chunkSegments = WithArray(st.chunkSegments, item.chunkId, seen),
                          !.whole[item.element] =
                             IF \A k \in 1..Len(seen) : seen[k] # Hole
                             THEN @ \cup {JoinChunks(seen)} ELSE @]
            IN  IF EveryChunkDefined(chunks)
                THEN LET fullTranslation == JoinChunks(chunks)
                         st2 == Applied(st1, item, fullTranslation)
                     IN  [st2 EXCEPT
                            !.cache = CacheSet(st.cache, DEFAULT_CACHE_SIZE, item.originalHTML,
                                               TargetLanguage, fullTranslation),
                            !.setCalls = @ \cup {i},
                            !.chunkTranslations =
                               WithoutArray(st.chunkTranslations, item.chunkId)]
                ELSE [st1 EXCEPT
                        !.chunkTranslations =
                           WithArray(st.chunkTranslations, item.chunkId, chunks)]
       ELSE LET st1 == Applied(st, item, translation)
            IN  [st1 EXCEPT
                   !.cache = CacheSet(st.cache, DEFAULT_CACHE_SIZE, item.placeholderText,
                                      TargetLanguage, translation),
                   !.setCalls = @ \cup {i},
                   !.whole[item.element] = @ \cup {translation}]
  ELSE [st EXCEPT !.dataFailed[item.element] = TRUE]

\* the two loops of processBatch over a split response, from index i on
RECURSIVE ApplyLoop(_, _, _, _)
ApplyLoop(st, batch, translations, i) ==
  IF i > Len(batch) THEN st
  ELSE IF i <= Len(translations)
  THEN ApplyLoop(ApplySegment(st, batch[i], SegmentFor(translations, i), i),
                 batch, translations, i + 1)
  ELSE ApplyLoop([st EXCEPT !.dataFailed[batch[i].element] = TRUE],
                 batch, translations, i + 1)

BtState ==
  [cache |-> cache, innerHTML |-> innerHTML, dataTranslated |-> dataTranslated,
   dataFailed |-> dataFailed, chunkTranslations |-> chunkTranslations,
   chunkSegments |-> chunkSegments, whole |-> whole, setCalls |-> {}]

\* processBatch after its await: translateText resolved to response and
\* nothing in the try block throws.  translateText resolves for every
\* outcome (api.ts 117-122), so a failed request takes the else branch and
\* never enters the catch block.  Then translateElements goes on with the
\* next batch.
BatchResponse(response) ==
  /\ pc = "batch"
  /\ LET batch == Head(batches)
         ok == ~response.error /\ Truthy(response.translatedText)
         translations == IF ok THEN SplitResponse(response.translatedText) ELSE <<>>
         st == IF ok THEN ApplyLoop(BtState, batch, translations, 1) ELSE BtState
     IN  /\ cache' = st.cache
         /\ innerHTML' = st.innerHTML
         /\ dataTranslated' = st.dataTranslated
         /\ dataFailed' = st.dataFailed
         /\ chunkTranslations' = st.chunkTranslations
         /\ chunkSegments' = st.chunkSegments
         /\ whole' = st.whole
         /\ lastResponse' =
              [ok |-> ok,
               units |-> [i \in 1..Len(batch) |->
                            [element |-> batch[i].element, chunk |-> IsChunk(batch[i]),
                             chunkId |-> batch[i].chunkId,
                             map |-> batch[i].placeholderMap]],
               segments |-> [i \in 1..Len(translations) |-> Trim(translations[i])],
               before |-> innerHTML,
               setCalls |-> st.setCalls]
         /\ transportFailed' =
              IF response.error
              THEN transportFailed \cup
                     {[request |-> Len(requests),
                       texts |-> {batch[i].placeholderText : i \in 1..Len(batch)}]}
              ELSE transportFailed
  /\ batches' = Tail(batches)
  /\ pc' = IF Tail(batches) = <<>> THEN "idle" ELSE "batch"
  /\ requests' = IF Tail(batches) = <<>> THEN requests
                 ELSE Append(requests, BatchText(batches[2]))
  /\ loop' = [loop EXCEPT !.requested = IF Tail(batches) = <<>> THEN @
                                        ELSE Append(@, loop.planned - Len(batches) + 2)]
  /\ UNCHANGED <<dataOriginalHtml, nextChunkId, pending, calls, page, lastPass>>

\* the for...of loop of the catch block goes on to the next unit whether
\* or not the unit before it failed (processSingleItem catches everything)
FallbackStopsOnFailure(failed, index, n) == ~failed /\ index < n

FallbackGoesOn(failed, index, n) == index < n

\* processBatch after its await when the try block throws: translateText
\* resolved to a usable response and the write of the first unit's
\* translation into its element throws (in an XML document the innerHTML
\* setter throws on markup that is not well-formed).  The translation was
\* cached just before; the catch block starts the per-unit loop.
BatchThrows(response) ==
  /\ pc = "batch"
  /\ ~response.error /\ Truthy(response.translatedText)
  /\ LET batch == Head(batches)
         translation == SegmentFor(SplitResponse(response.translatedText), 1)
     IN  /\ ~IsChunk(batch[1])
         /\ translation # <<>>
         /\ cache' = CacheSet(cache, DEFAULT_CACHE_SIZE, batch[1].placeholderText,
                              TargetLanguage, translation)
         /\ requests' = Append(requests, batch[1].placeholderText)
         /\ loop' = [loop EXCEPT
                       !.units = [i \in 1..Len(batch) |-> batch[i].element],
                       !.index = 1,
                       !.attempted = <<batch[1].element>>,
                       !.done = FALSE]
  /\ pc' = "single"
  /\ lastResponse' = NoResponse
  /\ UNCHANGED <<innerHTML, dataTranslated, dataOriginalHtml, dataFailed,
                 chunkTranslations, nextChunkId, batches, pending, calls, page,
                 lastPass, chunkSegments, whole, transportFailed>>

\* processSingleItem after its await, for the unit the per-unit loop is at:
\* translateText resolved to response; throws: the write into the element
\* throws and the function's own catch marks the unit failed.  Then the
\* loop goes on, and after the last unit translateElements goes on with
\* the next batch.
SingleResponse(response, throws) ==
  /\ pc = "single"
  /\ LET batch == Head(batches)
         item == batch[loop.index]
         ok == ~response.error /\ Truthy(response.translatedText)
         failed == ~ok \/ throws
         more == FallbackGoesOn(failed, loop.index, Len(batch))
     IN  /\ throws => ok
         /\ cache' = IF ok
                     THEN CacheSet(cache, DEFAULT_CACHE_SIZE, item.placeholderText,
                                   TargetLanguage, response.translatedText)
                     ELSE cache
         /\ innerHTML' = IF failed THEN innerHTML
                         ELSE [innerHTML EXCEPT ![item.element] =
                                 placeholdersToHtml(response.translatedText,
                                                    item.placeholderMap)]
         /\ dataTranslated' = IF failed THEN dataTranslated
                              ELSE [dataTranslated EXCEPT ![item.element] = TRUE]
         /\ dataFailed' = [dataFailed EXCEPT ![item.element] = failed]
         /\ whole' = IF failed THEN whole
                     ELSE [whole EXCEPT ![item.element] = @ \cup {response.translatedText}]
         /\ IF more
            THEN /\ loop' = [loop EXCEPT
                               !.index = @ + 1,
                               !.attempted = Append(@, batch[loop.index + 1].element)]
                 /\ requests' = Append(requests, batch[loop.index + 1].placeholderText)
                 /\ pc' = "single"
                 /\ batches' = batches
            ELSE /\ loop' = [loop EXCEPT
                               !.index = 0,
                               !.done = TRUE,
                               !.requested =
                                  IF Tail(batches) = <<>> THEN @
                                  ELSE Append(@, loop.planned - Len(batches) + 2)]
                 /\ requests' = IF Tail(batches) = <<>> THEN requests
                                ELSE Append(requests, BatchText(batches[2]))
                 /\ pc' = IF Tail(batches) = <<>> THEN "idle" ELSE "batch"
                 /\ batches' = Tail(batches)
  /\ UNCHANGED <<dataOriginalHtml, chunkTranslations, nextChunkId, pending, calls, page,
                 lastPass, lastResponse, chunkSegments, transportFailed>>

(***************************************************************************)
(* translateElement (element-translator.ts)                                *)
(***************************************************************************)
\* translateElement(element, settings) up to its await, or to its return
\* when the cache serves the element
TranslateElement(e) ==
  /\ pc = "idle"
  /\ calls < MaxCalls
  /\ ~dataTranslated[e]
  /\ Trim(innerHTML[e]) # <<>>
  /\ LET item == MakeItem(e)
         r == CacheGet(cache, item.placeholderText, TargetLanguage)
     IN  /\ cache' = r.cache
         /\ lastPass' =
              [kind |-> "element", els |-> <<e>>,
               failedBefore |-> {x \in {e} : dataFailed[e]},
               prepared |-> {e},
               present |-> {x \in {e} : r.value # None},
               uncached |-> {x \in {e} : ~Truthy(r.value)}]
         /\ IF Truthy(r.value)
            THEN /\ innerHTML' = [innerHTML EXCEPT
                                    ![e] = placeholdersToHtml(r.value, item.placeholderMap)]
                 /\ dataTranslated' = [dataTranslated EXCEPT ![e] = TRUE]
                 /\ whole' = [whole EXCEPT ![e] = @ \cup {r.value}]
                 /\ pc' = "idle"
                 /\ pending' = None
                 /\ requests' = <<>>
            ELSE /\ pc' = "element"
                 /\ pending' = item
                 /\ requests' = <<item.placeholderText>>
                 /\ UNCHANGED <<innerHTML, dataTranslated, whole>>
  /\ dataOriginalHtml' = [dataOriginalHtml EXCEPT ![e] = innerHTML[e]]
  /\ calls' = calls + 1
  /\ lastResponse' = NoResponse
  /\ transportFailed' = {}
  /\ UNCHANGED <<dataFailed, chunkTranslations, nextChunkId, batches, page,
                 chunkSegments, loop>>

\* translateElement after its await (element-translator.ts 54-62)
ElementResponse(response) ==
  /\ pc = "element"
  /\ IF ~response.error
     THEN /\ cache' = CacheSet(cache, DEFAULT_CACHE_SIZE, pending.placeholderText,
                               TargetLanguage, response.translatedText)
          /\ innerHTML' = [innerHTML EXCEPT ![pending.element] =
                             placeholdersToHtml(response.translatedText,
                                                pending.placeholderMap)]
          /\ dataTranslated' = [dataTranslated EXCEPT ![pending.element] = TRUE]
          /\ whole' = [whole EXCEPT ![pending.element] =
                         IF response.translatedText # <<>>
                         THEN @ \cup {response.translatedText} ELSE @]
     ELSE UNCHANGED <<cache, innerHTML, dataTranslated, whole>>
  /\ pc' = "idle"
  /\ pending' = None
  /\ UNCHANGED <<dataOriginalHtml, dataFailed, chunkTranslations, nextChunkId, batches,
                 calls, page, requests, lastPass, lastResponse, chunkSegments,
                 transportFailed, loop>>

\* no function is called on its own
NoOutput == [called |-> FALSE, value |-> <<>>]

Returned(value) == [called |-> TRUE, value |-> value]

(***************************************************************************)
(* restorePage (content.ts)                                                *)
(***************************************************************************)
\* a restore that leaves the element's markup as it is
RestoreKeepsMarkup(originalHTML, current) == current

\* element.innerHTML = originalHTML
RestoredMarkup(originalHTML, current) == originalHTML

\* restorePage(): every element with a data-original-html attribute gets
\* that markup back and loses the attribute; the answer is
\* {status: 'restored'}.  The current observer is disconnected and dropped
\* and the set of handled elements emptied.  A request that is in flight
\* stays in flight.
restorePage ==
  /\ observers' = [o \in DOMAIN observers |->
                     IF o = translationObserver
                     THEN [observers[o] EXCEPT !.connected = FALSE]
                     ELSE observers[o]]
  /\ translationObserver' = 0
  /\ translatedElements' = {}
  /\ innerHTML' = [e \in Elements |->
                     IF dataOriginalHtml[e] # None
                     THEN RestoredMarkup(dataOriginalHtml[e], innerHTML[e])
                     ELSE innerHTML[e]]
  /\ dataOriginalHtml' = [e \in Elements |-> None]
  /\ fnOutput' = Returned(<<"restored">>)
  /\ UNCHANGED <<dataTranslated, dataFailed, chunkTranslations, nextChunkId, pc, batches,
                 pending, calls, page, requests, lastPass, lastResponse, chunkSegments,
                 whole, transportFailed, loop, fnInput, isTranslating, translatePageAt,
                 passes, replies, storageReads, passLog, sentLog>>

\* restorePage() called while no request is in flight
RestorePage == pc = "idle" /\ restorePage

(***************************************************************************)
(* Specifications                                                          *)
(***************************************************************************)
IdleCache == InitCache

IdleRateLimiter ==
  /\ now = StartTime
  /\ queue = <<>>
  /\ lastProcessTime = 0
  /\ intervalId = FALSE
  /\ rps = 50
  /\ intervalRps = 50
  /\ nextTick = 0
  /\ dispatched = <<>>
  /\ nextOp = 1
  /\ settled = {}
  /\ cleared = NotCleared

IdlePage ==
  /\ InitPage
  /\ page = PageOf(<<ShortText, TaggedText, ShortText>>)

IdleFn == fnInput = <<>> /\ fnOutput = NoOutput

InitCacheSpec == InitCache /\ IdleRateLimiter /\ IdlePage /\ IdleFn /\ IdleContent

NextCache ==
  \/ \E in \in CacheInputs : CacheGetOp(in[1], in[2]) /\ UNCHANGED <<rlVars, btVars, fnVars, contentVars>>
  \/ \E in \in CacheInputs, v \in CacheValues :
       CacheSetOp(in[1], in[2], v) /\ UNCHANGED <<rlVars, btVars, fnVars, contentVars>>
  \/ CacheClearOp /\ UNCHANGED <<rlVars, btVars, fnVars, contentVars>>

SpecCache == InitCacheSpec /\ [][NextCache]_vars

\* pairs of which two share their key: the hashes of "ja:Aa" and "ja:BB"
\* are equal, 31 * 65 + 97 = 31 * 66 + 66
KeyInputs ==
  {<<(<<"A", "a">>), (<<"j", "a">>)>>, <<(<<"B", "B">>), (<<"j", "a">>)>>,
   <<(<<"a">>), (<<"j", "a">>)>>, <<(<<"a">>), (<<"k", "o">>)>>}

NextCacheKeys ==
  \/ \E in \in KeyInputs : CacheGetOp(in[1], in[2]) /\ UNCHANGED <<rlVars, btVars, fnVars, contentVars>>
  \/ \E in \in KeyInputs, v \in CacheValues :
       CacheSetOp(in[1], in[2], v) /\ UNCHANGED <<rlVars, btVars, fnVars, contentVars>>
  \/ CacheClearOp /\ UNCHANGED <<rlVars, btVars, fnVars, contentVars>>

SpecCacheKeys == InitCacheSpec /\ [][NextCacheKeys]_vars

\* the cache with the arguments of the last call kept: get and set calls,
\* in any order, over four texts of one language
TouchInputs == {in \in CacheInputs : in[2] = <<"j", "a">>}

GetCall(in) ==
  /\ CacheGetOp(in[1], in[2])
  /\ fnInput' = in
  /\ UNCHANGED <<rlVars, btVars, fnOutput, contentVars>>

SetCall(in, value) ==
  /\ CacheSetOp(in[1], in[2], value)
  /\ fnInput' = <<in[1], in[2], value>>
  /\ UNCHANGED <<rlVars, btVars, fnOutput, contentVars>>

NextTouch ==
  \/ \E in \in TouchInputs : GetCall(in)
  \/ \E in \in TouchInputs, v \in CacheValues : SetCall(in, v)

SpecTouch == InitCacheSpec /\ [][NextTouch]_vars

InitRateLimiterSpec == IdleCache /\ InitRateLimiter /\ IdlePage /\ IdleFn /\ IdleContent

NextRateLimiter ==
  \/ Execute /\ UNCHANGED <<cacheVars, btVars, fnVars, contentVars>>
  \/ \E r \in RpsValues : UpdateRPS(r) /\ UNCHANGED <<cacheVars, btVars, fnVars, contentVars>>
  \/ IntervalTick /\ UNCHANGED <<cacheVars, btVars, fnVars, contentVars>>
  \/ ClearQueue /\ UNCHANGED <<cacheVars, btVars, fnVars, contentVars>>
  \/ Advance /\ UNCHANGED <<cacheVars, btVars, fnVars, contentVars>>
  \/ \E op \in 1..MaxOps : Complete(op) /\ UNCHANGED <<cacheVars, btVars, fnVars, contentVars>>

SpecRateLimiter == InitRateLimiterSpec /\ [][NextRateLimiter]_vars

\* the page is driven by BatchTranslator.translateElements (content.ts 106)
InitTranslator == IdleCache /\ IdleRateLimiter /\ InitPage /\ IdleFn /\ IdleContent

NextTranslator ==
  \/ \E els \in ElementLists :
       TranslateElements(els) /\ UNCHANGED <<recency, lastCacheOp, stored, rlVars, fnVars, contentVars>>
  \/ \E response \in Responses :
       BatchResponse(response) /\ UNCHANGED <<recency, lastCacheOp, stored, rlVars, fnVars, contentVars>>

SpecTranslator == InitTranslator /\ [][NextTranslator]_vars

\* the page is driven by translateElement, element by element (content.ts 566)
NextElement ==
  \/ \E e \in Elements : TranslateElement(e) /\ UNCHANGED <<recency, lastCacheOp, stored, rlVars, fnVars, contentVars>>
  \/ \E response \in Responses :
       ElementResponse(response) /\ UNCHANGED <<recency, lastCacheOp, stored, rlVars, fnVars, contentVars>>

SpecElement == InitTranslator /\ [][NextElement]_vars

\* a failed request, an empty translation, one segment
RestoreResponses ==
  {ErrorResponse,
   [error |-> FALSE, translatedText |-> <<>>],
   [error |-> FALSE, translatedText |-> <<"X">>]}

\* translateElements is handed every element of the page, or one of them
RestoreLists == {[i \in Elements |-> i]} \cup {<<e>> : e \in Elements}

\* the page is translated by either translator and restored in between
NextRestore ==
  \/ \E els \in RestoreLists :
       TranslateElements(els) /\ UNCHANGED <<recency, lastCacheOp, stored, rlVars, fnVars, contentVars>>
  \/ \E response \in RestoreResponses :
       BatchResponse(response) /\ UNCHANGED <<recency, lastCacheOp, stored, rlVars, fnVars, contentVars>>
  \/ \E e \in Elements :
       TranslateElement(e) /\ UNCHANGED <<recency, lastCacheOp, stored, rlVars, fnVars, contentVars>>
  \/ \E response \in RestoreResponses :
       ElementResponse(response) /\ UNCHANGED <<recency, lastCacheOp, stored, rlVars, fnVars, contentVars>>
  \/ RestorePage /\ UNCHANGED <<cacheVars, rlVars>>

SpecRestore == InitTranslator /\ [][NextRestore]_vars

\* the 'restore' message is handled whenever it arrives, also between the
\* request of a batch and its response
NextRestoreInFlight ==
  \/ \E els \in RestoreLists :
       TranslateElements(els) /\ UNCHANGED <<recency, lastCacheOp, stored, rlVars, fnVars, contentVars>>
  \/ \E response \in RestoreResponses :
       BatchResponse(response) /\ UNCHANGED <<recency, lastCacheOp, stored, rlVars, fnVars, contentVars>>
  \/ restorePage /\ UNCHANGED <<cacheVars, rlVars>>

SpecRestoreInFlight == InitTranslator /\ [][NextRestoreInFlight]_vars

\* a pass in which the try block of processBatch may throw
InitFallback == IdleCache /\ IdleRateLimiter /\ IdlePage /\ IdleFn /\ IdleContent

\* a failed request, one segment, two segments
FallbackResponses ==
  {ErrorResponse,
   [error |-> FALSE, translatedText |-> <<"X">>],
   [error |-> FALSE, translatedText |-> <<"X">> \o DEFAULT_DELIMITER \o <<"Y">>]}

NextFallback ==
  \/ \E els \in ElementLists :
       TranslateElements(els) /\ UNCHANGED <<recency, lastCacheOp, stored, rlVars, fnVars, contentVars>>
  \/ \E response \in FallbackResponses :
       BatchResponse(response) /\ UNCHANGED <<recency, lastCacheOp, stored, rlVars, fnVars, contentVars>>
  \/ \E response \in FallbackResponses :
       BatchThrows(response) /\ UNCHANGED <<recency, lastCacheOp, stored, rlVars, fnVars, contentVars>>
  \/ \E response \in FallbackResponses, throws \in BOOLEAN :
       SingleResponse(response, throws)
         /\ UNCHANGED <<recency, lastCacheOp, stored, rlVars, fnVars, contentVars>>

SpecFallback == InitFallback /\ [][NextFallback]_vars

\* 30 characters, 34 once the two tags are placeholders: six sentences
TaggedLongText ==
  <<"<", "b", ">", "a", "a", "<", "/", "b", ">", ".", " ", "b", "b", ".", " ",
    "a", "a", ".", " ", "b", "b", ".", " ", "a", "a", ".", " ", "a", "b", ".">>

\* pages whose first two elements hold the same oversized fragment, with
\* and without markup
ReassemblyPages ==
  {PageOf(<<TaggedLongText, TaggedLongText>>), PageOf(<<LongText, LongText>>)}

InitReassembly ==
  /\ IdleCache /\ IdleRateLimiter /\ IdleFn /\ IdleContent
  /\ page \in ReassemblyPages
  /\ FreshPage

NextReassembly ==
  \/ \E els \in ElementLists :
       TranslateElements(els) /\ UNCHANGED <<recency, lastCacheOp, stored, rlVars, fnVars, contentVars>>
  \/ \E response \in FallbackResponses :
       BatchResponse(response) /\ UNCHANGED <<recency, lastCacheOp, stored, rlVars, fnVars, contentVars>>

SpecReassembly == InitReassembly /\ [][NextReassembly]_vars

(***************************************************************************)
(* createBatches on its own, over lists of uncached units                  *)
(***************************************************************************)
MaxUnits == 3

\* one sentence of n characters
SentenceOf(n) == [i \in 1..n |-> IF i = n THEN "." ELSE "a"]

\* together with ShortText and one delimiter it fills the budget exactly
FitText == SentenceOf(MaxCharactersPerBatch - Len(DEFAULT_DELIMITER) - Len(ShortText))

\* one character more than FitText
TightText == SentenceOf(Len(FitText) + 1)

\* a short sentence followed by one sentence that is nearly the budget
MixedText == <<"a", ".", " ">> \o SentenceOf(MaxCharactersPerBatch - 2)

\* oversized, without any sentence end
NoTerminatorText == [i \in 1..(MaxCharactersPerBatch + 8) |-> "b"]

UnitTexts == {ShortText, FitText, TightText, LongText, MixedText, NoTerminatorText}

UnitLists ==
  UNION {[1..n -> UnitTexts] : n \in 0..MaxUnits}

\* the uncached items of the units, unit i being element i
UnitItems(texts) ==
  [i \in 1..Len(texts) |->
     LET enc == htmlToPlaceholders(texts[i])
     IN  [element |-> i, originalHTML |-> texts[i], placeholderText |-> enc.text,
          placeholderMap |-> enc.map, chunkId |-> 0, chunkIndex |-> 0,
          totalChunks |-> 0]]

InitBatches ==
  /\ IdleCache /\ IdleRateLimiter /\ IdlePage
  /\ fnInput \in UnitLists
  /\ fnOutput = NoOutput
  /\ IdleContent

\* createBatches(items, settings) with nothing cached: the batching loop
CreateBatches ==
  /\ ~fnOutput.called
  /\ fnOutput' = Returned(BatchLoop(UnitItems(fnInput), <<>>, <<>>, 0, 1).batches)
  /\ UNCHANGED <<cacheVars, rlVars, btVars, fnInput, contentVars>>

NextBatches == CreateBatches

SpecBatches == InitBatches /\ [][NextBatches]_vars

(***************************************************************************)
(* The placeholder codec on its own, over markup strings                   *)
(***************************************************************************)
MaxPieces == 3

\* pieces of markup: text, plain tags, a tag with an attribute and upper
\* case, a tag whose attribute holds "$&", a tag named with underscore and
\* digit, and a lone "<"
MarkupPieces ==
  {<<"x">>, <<"<", "b", ">">>, <<"<", "/", "b", ">">>, <<"<", "I", " ", "c", ">">>,
   <<"<", "a", " ", "$", "&", ">">>, <<"<", "b", "_", "1", ">">>, <<"<">>}

Markups == {Concat(ps) : ps \in UNION {[1..n -> MarkupPieces] : n \in 0..MaxPieces}}

NotDecoded == [text |-> <<>>, map |-> <<>>, decoded |-> FALSE, html |-> <<>>]

InitCodec ==
  /\ IdleCache /\ IdleRateLimiter /\ IdlePage
  /\ fnInput \in Markups
  /\ fnOutput = NoOutput
  /\ IdleContent

\* htmlToPlaceholders(html)
Encode ==
  /\ ~fnOutput.called
  /\ LET enc == htmlToPlaceholders(fnInput)
     IN  fnOutput' = Returned([NotDecoded EXCEPT !.text = enc.text, !.map = enc.map])
  /\ UNCHANGED <<cacheVars, rlVars, btVars, fnInput, contentVars>>

\* placeholdersToHtml(text, map) on the result of htmlToPlaceholders
Decode ==
  /\ fnOutput.called
  /\ ~fnOutput.value.decoded
  /\ fnOutput' = Returned([fnOutput.value EXCEPT
                             !.decoded = TRUE,
                             !.html = placeholdersToHtml(fnOutput.value.text,
                                                         fnOutput.value.map)])
  /\ UNCHANGED <<cacheVars, rlVars, btVars, fnInput, contentVars>>

NextCodec == Encode \/ Decode

SpecCodec == InitCodec /\ [][NextCodec]_vars

(***************************************************************************)
(* placeholdersToHtml on its own, over texts as a model returns them       *)
(***************************************************************************)
MaxTokens == 2

\* maps of htmlToPlaceholders: of "<b>x</b>", of a text with more than ten
\* tags (two of its entries), of '<a $&>' and of '<b_1>'
DecodeMaps ==
  {<<>>,
   <<[placeholder |-> <<"<", "b", "_", "0", ">">>,
      original |-> <<"<", "b", ">">>],
     [placeholder |-> <<"<", "/", "b", "_", "1", ">">>,
      original |-> <<"<", "/", "b", ">">>]>>,
   <<[placeholder |-> <<"<", "b", "_", "1", ">">>,
      original |-> <<"<", "i", " ", "c", ">">>],
     [placeholder |-> <<"<", "b", "_", "1", "0", ">">>,
      original |-> <<"<", "u", ">">>]>>,
   <<[placeholder |-> <<"<", "a", "_", "0", ">">>,
      original |-> <<"<", "a", " ", "$", "&", ">">>]>>,
   <<[placeholder |-> <<"<", "b", "1", "_", "0", ">">>,
      original |-> <<"<", "b", "_", "1", ">">>]>>}

\* how a placeholder comes back: as it was, with a space after '<', with
\* a space before '>', with both
Variants == {"exact", "open", "close", "both"}

Variant(ph, v) ==
  CASE v = "exact" -> ph
    [] v = "open" -> SpaceAfterOpen(ph)
    [] v = "close" -> SpaceBeforeClose(ph)
    [] v = "both" -> SpaceBeforeClose(SpaceAfterOpen(ph))

\* the parts of a returned text: plain text, a placeholder of the map in one
\* of its variants, and placeholder-shaped tokens that are in none of the maps
PlainTokens == {[kind |-> "text", text |-> <<"x">>, entry |-> 0, bare |-> <<>>]}

LeftoverTokens ==
  {[kind |-> "leftover", text |-> <<"<", "b", "_", "5", ">">>, entry |-> 0,
    bare |-> <<"<", "b", ">">>],
   [kind |-> "leftover", text |-> <<"<", " ", "r", "_", "9", ">">>, entry |-> 0,
    bare |-> <<"<", "r", ">">>]}

EntryTokens(map) ==
  {[kind |-> v, text |-> <<>>, entry |-> i, bare |-> <<>>] :
     v \in Variants, i \in 1..Len(map)}

TokenText(t, map) ==
  IF t.entry = 0 THEN t.text ELSE Variant(map[t.entry].placeholder, t.kind)

TextOf(in) ==
  Concat([k \in 1..Len(in.tokens) |-> TokenText(in.tokens[k], in.map)])

DecodeInputs ==
  UNION {{[tokens |-> ts, map |-> map] :
            ts \in UNION {[1..n -> PlainTokens \cup LeftoverTokens \cup EntryTokens(map)] :
                            n \in 0..MaxTokens}} :
           map \in DecodeMaps}

InitDecode ==
  /\ IdleCache /\ IdleRateLimiter /\ IdlePage
  /\ fnInput \in DecodeInputs
  /\ fnOutput = NoOutput
  /\ IdleContent

\* placeholdersToHtml(text, map)
PlaceholdersToHtml ==
  /\ ~fnOutput.called
  /\ fnOutput' = Returned(placeholdersToHtml(TextOf(fnInput), fnInput.map))
  /\ UNCHANGED <<cacheVars, rlVars, btVars, fnInput, contentVars>>

NextDecode == PlaceholdersToHtml

SpecDecode == InitDecode /\ [][NextDecode]_vars

(***************************************************************************)
(* api.ts: translateText over the outcomes of its fetch                    *)
(***************************************************************************)
\* "API request failed: "
ApiRequestFailed ==
  <<"A", "P", "I", " ", "r", "e", "q", "u", "e", "s", "t", " ",
    "f", "a", "i", "l", "e", "d", ":", " ">>

\* 'Unknown error'
UnknownError ==
  <<"U", "n", "k", "n", "o", "w", "n", " ", "e", "r", "r", "o", "r">>

\* the messages of the errors the engine throws: response.json() on a body
\* that is not JSON, and a property read on undefined or null
SyntaxErrorMessage == <<"b", "a", "d", " ", "j", "s", "o", "n">>

TypeErrorMessage == <<"n", "o", " ", "p", "r", "o", "p">>

\* what fetch (run by rateLimiter.execute, which passes its outcome on)
\* rejects with: an Error with or without a message, or a value that is
\* not an Error
FetchRejections ==
  {[isError |-> TRUE, message |-> <<"N", "e", "t">>],
   [isError |-> TRUE, message |-> <<>>],
   [isError |-> FALSE, message |-> <<"N", "e", "t">>],
   [isError |-> FALSE, message |-> <<>>]}

Statuses == {200, 400, 401, 429, 500}

StatusTexts == {<<>>, <<"B", "a", "d">>}

ServerMessages == {<<>>, <<"m", "1">>, <<"q", "u", "o", "t", "a">>}

Contents == {<<>>, <<"X">>, <<"Y">>}

\* a response body: its shape, the error.message and the
\* choices[0].message.content it carries when the shape has them
Body(shape, message, content) ==
  [shape |-> shape, message |-> message, content |-> content]

\* not JSON; null; {}; {error: "text"}; {error: {}}; {error: {message}};
\* {choices: []}; {choices: [{}]}; {choices: [{message: {content}}]}
Bodies ==
  {Body(shape, <<>>, <<>>) :
     shape \in {"notJson", "null", "object", "errorString", "errorObject",
                "choicesEmpty", "choiceNoMessage"}}
  \cup {Body("errorMessage", m, <<>>) : m \in ServerMessages}
  \cup {Body("choice", <<>>, c) : c \in Contents}

NoRejection == [isError |-> FALSE, message |-> <<>>]

NoBody == Body("null", <<>>, <<>>)

\* response.ok is true for the statuses 200..299
FetchOutcomes ==
  {[rejects |-> TRUE, thrown |-> t, ok |-> FALSE, status |-> 0,
    statusText |-> <<>>, body |-> NoBody] : t \in FetchRejections}
  \cup {[rejects |-> FALSE, thrown |-> NoRejection, ok |-> st \in 200..299,
         status |-> st, statusText |-> tx, body |-> b] :
          st \in Statuses, tx \in StatusTexts, b \in Bodies}

Thrown(isError, message) ==
  [threw |-> TRUE, isError |-> isError, message |-> message,
   translatedText |-> <<>>]

Completed(translatedText) ==
  [threw |-> FALSE, isError |-> FALSE, message |-> <<>>,
   translatedText |-> translatedText]

\* errorData?.error?.message || `${response.status} ${response.statusText}`
\* with errorData = await response.json().catch(() => null)
ErrorMessage(f) ==
  IF f.body.shape = "errorMessage" /\ f.body.message # <<>>
  THEN f.body.message
  ELSE ToDigits(f.status) \o <<" ">> \o f.statusText

\* data = await response.json(); data.choices[0]?.message?.content || ''
ReadTranslation(body) ==
  CASE body.shape = "notJson" -> Thrown(TRUE, SyntaxErrorMessage)
    [] body.shape \in {"null", "object", "errorString", "errorObject",
                       "errorMessage"} -> Thrown(TRUE, TypeErrorMessage)
    [] body.shape \in {"choicesEmpty", "choiceNoMessage"} -> Completed(<<>>)
    [] OTHER -> Completed(body.content)

\* the try block of translateText
TryBlock(f) ==
  IF f.rejects THEN Thrown(f.thrown.isError, f.thrown.message)
  ELSE IF ~f.ok THEN Thrown(TRUE, ApiRequestFailed \o ErrorMessage(f))
  ELSE ReadTranslation(f.body)

Settled(state, translatedText, hasError, error) ==
  [state |-> state, translatedText |-> translatedText,
   hasError |-> hasError, error |-> error]

CatchRethrows(thrown) ==
  Settled("rejected", <<>>, TRUE,
          IF thrown.isError THEN thrown.message ELSE UnknownError)

\* the catch block of translateText
CatchBlock(thrown) ==
  Settled("fulfilled", <<>>, TRUE,
          IF thrown.isError THEN thrown.message ELSE UnknownError)

\* how the promise of translateText settles when its fetch comes out as f
TranslateTextResult(f) ==
  LET t == TryBlock(f)
  IN  IF t.threw THEN CatchBlock(t)
      ELSE Settled("fulfilled", t.translatedText, FALSE, <<>>)

InitApi ==
  /\ IdleCache /\ IdleRateLimiter /\ IdlePage
  /\ fnInput \in FetchOutcomes
  /\ fnOutput = NoOutput
  /\ IdleContent

TranslateText ==
  /\ ~fnOutput.called
  /\ fnOutput' = Returned(TranslateTextResult(fnInput))
  /\ UNCHANGED <<cacheVars, rlVars, btVars, fnInput, contentVars>>

NextApi == TranslateText

SpecApi == InitApi /\ [][NextApi]_vars

(***************************************************************************)
(* splitOversizedItem on its own, over oversized fragments                 *)
(***************************************************************************)
MaxSplitPieces == 4

\* a sentence, a short question, a run without terminator, a terminator
\* inside a word, a leading ellipsis, a tag
SplitPieces ==
  {<<"a", "a", "a", "a", "a", "a", "a", "a", ".", " ">>,
   <<"b", "b", "?", " ">>,
   <<"c", "c", "c", "c", "c", "c", "c", "c", "c", "c", "c", "c">>,
   <<"d", ".", "e">>,
   <<".", ".", ".", " ">>,
   <<"<", "i", ">">>}

RECURSIVE Flatten(_)
Flatten(pieces) ==
  IF pieces = <<>> THEN <<>> ELSE Head(pieces) \o Flatten(Tail(pieces))

\* the fragments createBatches hands to splitOversizedItem: their
\* placeholder text is longer than the budget
OversizedTexts ==
  {t \in {Flatten(ps) : ps \in UNION {[1..n -> SplitPieces] : n \in 1..MaxSplitPieces}} :
     Len(htmlToPlaceholders(t).text) > MaxCharactersPerBatch}

InitSplit ==
  /\ IdleCache /\ IdleRateLimiter /\ IdlePage
  /\ fnInput \in OversizedTexts
  /\ fnOutput = NoOutput
  /\ IdleContent

\* splitOversizedItem(item) for the item of the fragment: the placeholder
\* texts of the chunks it returns
SplitOversizedItem ==
  /\ ~fnOutput.called
  /\ LET chunks == splitOversizedItem(UnitItems(<<fnInput, contentVars>>)[1], 1)
     IN  fnOutput' = Returned([i \in 1..Len(chunks) |-> chunks[i].placeholderText])
  /\ UNCHANGED <<cacheVars, rlVars, btVars, fnInput, contentVars>>

NextSplit == SplitOversizedItem

SpecSplit == InitSplit /\ [][NextSplit]_vars

(***************************************************************************)
(* RateLimiter: operations submitted together to a fresh limiter           *)
(***************************************************************************)
\* new RateLimiter(2) of the test
BurstRps == 2

\* the operations submitted together
BurstOps == 4

\* timer periods the clock runs for
BurstTicks == 160

InitBurst ==
  /\ IdleCache /\ IdlePage /\ IdleFn /\ IdleContent
  /\ now = StartTime
  /\ queue = <<>>
  /\ lastProcessTime = 0
  /\ intervalId = FALSE
  /\ rps = BurstRps
  /\ intervalRps = BurstRps
  /\ nextTick = 0
  /\ dispatched = <<>>
  /\ nextOp = 1
  /\ settled = {}
  /\ cleared = NotCleared

\* execute(fn) called in one go for every operation, before time passes
ExecuteTogether ==
  /\ now = StartTime
  /\ nextOp <= BurstOps
  /\ Enqueue

\* the timers run on time: the clock moves on by one timer period once
\* the callback that is due has run
AdvanceTimers ==
  /\ nextOp > BurstOps
  /\ ~(intervalId /\ now >= nextTick)
  /\ now + TickMs <= StartTime + BurstTicks * TickMs
  /\ now' = now + TickMs
  /\ UNCHANGED <<queue, lastProcessTime, intervalId, intervalRps, nextTick, rps,
                 dispatched, nextOp, settled, cleared>>

NextBurst ==
  \/ ExecuteTogether /\ UNCHANGED <<cacheVars, btVars, fnVars, contentVars>>
  \/ IntervalTick /\ UNCHANGED <<cacheVars, btVars, fnVars, contentVars>>
  \/ AdvanceTimers /\ UNCHANGED <<cacheVars, btVars, fnVars, contentVars>>

SpecBurst == InitBurst /\ [][NextBurst]_vars

(***************************************************************************)
(* api.ts: the rate limiter of translateText and configureApi              *)
(***************************************************************************)
\* configureApi({rps: r}) with r defined: rateLimiter = new RateLimiter(r).
\* The fields are those of the new instance, which translateText uses from
\* now on: an empty queue, lastProcessTime 0, no timer.  Taken while the
\* instance it replaces has nothing queued, so that instance dispatches
\* nothing more; the requests it dispatched stay in the log of fetches.
ConfigureApi(r) ==
  /\ queue = <<>>
  /\ rps' = r
  /\ queue' = <<>>
  /\ lastProcessTime' = 0
  /\ intervalId' = FALSE
  /\ cleared' = [cleared EXCEPT !.halted = FALSE]
  /\ UNCHANGED <<now, intervalRps, nextTick, dispatched, nextOp, settled>>

\* translateText hands its fetch to rateLimiter.execute; updateRateLimit
\* calls updateRPS on the instance; configureApi replaces the instance
NextConfigure ==
  \/ Execute /\ UNCHANGED <<cacheVars, btVars, fnVars, contentVars>>
  \/ \E r \in RpsValues : UpdateRPS(r) /\ UNCHANGED <<cacheVars, btVars, fnVars, contentVars>>
  \/ \E r \in RpsValues : ConfigureApi(r) /\ UNCHANGED <<cacheVars, btVars, fnVars, contentVars>>
  \/ IntervalTick /\ UNCHANGED <<cacheVars, btVars, fnVars, contentVars>>
  \/ Advance /\ UNCHANGED <<cacheVars, btVars, fnVars, contentVars>>
  \/ \E op \in 1..MaxOps : Complete(op) /\ UNCHANGED <<cacheVars, btVars, fnVars, contentVars>>

SpecConfigure == InitRateLimiterSpec /\ [][NextConfigure]_vars

(***************************************************************************)
(* The pump over time: no clearQueue, the clock and the timers keep going  *)
(***************************************************************************)
\* 1000 / rps for the lowest rps in use
SlowestInterval == 1000 \div (CHOOSE r \in RpsValues : \A q \in RpsValues : r <= q)

\* operations are submitted until this time
SubmitBy == StartTime + 2 * TimeStep

\* the clock is followed long enough for every operation: one interval,
\* one timer period and two steps of the clock for each
PumpMaxTime == SubmitBy + (MaxOps + 1) * (SlowestInterval + TickMs + 2 * TimeStep)

\* execute(fn)
ExecuteInTime ==
  /\ now <= SubmitBy
  /\ Execute
  /\ UNCHANGED <<cacheVars, btVars, fnVars, contentVars>>

\* updateRPS(r)
PumpUpdateRPS ==
  /\ \E r \in RpsValues : UpdateRPS(r)
  /\ UNCHANGED <<cacheVars, btVars, fnVars, contentVars>>

\* the timer callback runs when it is due
PumpTick == IntervalTick /\ UNCHANGED <<cacheVars, btVars, fnVars, contentVars>>

\* fn() of a dispatched operation ends; nothing makes it end
PumpComplete ==
  /\ \E op \in 1..MaxOps : Complete(op)
  /\ UNCHANGED <<cacheVars, btVars, fnVars, contentVars>>

\* the clock moves on once the callback that is due has run, as long as an
\* operation is queued or can still be submitted
TimePasses ==
  /\ ~(intervalId /\ now >= nextTick)
  /\ queue # <<>> \/ now <= SubmitBy
  /\ now + TimeStep <= PumpMaxTime
  /\ now' = now + TimeStep
  /\ UNCHANGED <<queue, lastProcessTime, intervalId, intervalRps, nextTick, rps,
                 dispatched, nextOp, settled, cleared>>
  /\ UNCHANGED <<cacheVars, btVars, fnVars, contentVars>>

NextPump ==
  \/ ExecuteInTime
  \/ PumpUpdateRPS
  \/ PumpTick
  \/ PumpComplete
  \/ TimePasses

\* a timer that is set fires and the clock does not stop; no operation has
\* to end
SpecPump ==
  /\ InitRateLimiterSpec
  /\ [][NextPump]_vars
  /\ WF_vars(PumpTick)
  /\ WF_vars(TimePasses)

(***************************************************************************)
(* Claims                                                                  *)
(***************************************************************************)

FifoDispatch ==
  \A i, j \in 1..Len(dispatched) : i < j => dispatched[i].op < dispatched[j].op

\* a later operation waited in the queue behind an earlier one while the
\* rps was changed, and all were dispatched
FifoDispatchWitness ==
  /\ Len(dispatched) >= 3
  /\ dispatched[1].rps # dispatched[2].rps
  /\ dispatched[2].time < dispatched[3].time

\* C3: when translateElements has finished, every unit it prepared that
\* was not served from the cache carries exactly one of the markers
\* data-translated and data-translation-failed, whatever the remote call
\* returned.
UnitsSettled ==
  (pc = "idle" /\ lastPass.kind = "batch") =>
    \A e \in lastPass.uncached : dataTranslated[e] # dataFailed[e]

\* C4: every unit of a batch whose request failed in transport (network
\* error or non-success status) is requested again on its own, by a later
\* request that carries the text of that unit alone.
BatchFailureRetried ==
  \A f \in transportFailed :
    \A t \in f.texts :
      \E k \in (f.request + 1)..Len(requests) : requests[k] = t

\* C5: after a response was split, the unit at position i of the batch has
\* the decode of segment i when that segment is not empty; a unit beyond
\* the last segment is marked failed, no cache entry was set for it and its
\* element is as it was before the response.
SegmentsPositional ==
  lastResponse.ok =>
    \A i \in 1..Len(lastResponse.units) :
      LET u == lastResponse.units[i]
      IN  IF i <= Len(lastResponse.segments)
          THEN (~u.chunk /\ lastResponse.segments[i] # <<>>) =>
                 /\ innerHTML[u.element] =
                      placeholdersToHtml(lastResponse.segments[i], u.map)
                 /\ dataTranslated[u.element]
          ELSE /\ dataFailed[u.element]
               /\ i \notin lastResponse.setCalls
               /\ innerHTML[u.element] = lastResponse.before[u.element]

\* a batch of two units got a response of one non-empty segment
SegmentsPositionalWitness ==
  /\ lastResponse.ok
  /\ Len(lastResponse.units) = 2
  /\ Len(lastResponse.segments) = 1
  /\ lastResponse.segments[1] # <<>>
  /\ dataTranslated[lastResponse.units[1].element]
  /\ dataFailed[lastResponse.units[2].element]

\* C6: while the translation of some chunk of a fragment has not arrived,
\* a chunk's segment is only stored: the element is as it was before the
\* response, it is not marked translated and no cache entry was set.
ChunksHeldUntilComplete ==
  lastResponse.ok =>
    \A i \in 1..Len(lastResponse.units) :
      LET u == lastResponse.units[i]
      IN  (/\ u.chunk
           /\ u.chunkId \in DOMAIN chunkSegments
           /\ \E k \in DOMAIN chunkSegments[u.chunkId] :
                chunkSegments[u.chunkId][k] = Hole) =>
            /\ innerHTML[u.element] = lastResponse.before[u.element]
            /\ ~dataTranslated[u.element]
            /\ i \notin lastResponse.setCalls

\* C7: an element either has its original markup or the decode of a
\* complete, non-empty translation of its whole fragment.
OnlyWholeTranslationsWritten ==
  \A e \in Elements :
    \/ innerHTML[e] = page[e]
    \/ \E t \in whole[e] :
         /\ t # <<>>
         /\ innerHTML[e] = placeholdersToHtml(t, htmlToPlaceholders(page[e]).map)

\* C8: an element that was Failed when it was passed to translateElements
\* again is prepared by that pass.
FailedUnitsEligible ==
  lastPass.kind = "batch" => lastPass.failedBefore \subseteq lastPass.prepared

\* C9: a unit whose key is in the cache when the pass plans its requests
\* is Applied and is part of no request; when every prepared unit is such
\* a unit, the pass makes no request.
CacheHitsSkipNetwork ==
  /\ \A e \in lastPass.present : e \notin lastPass.uncached /\ dataTranslated[e]
  /\ (lastPass.prepared # {} /\ lastPass.prepared \subseteq lastPass.present) =>
       requests = <<>>

CacheSizeBounded ==
  CacheCapacity >= 1 => CacheSize(cache) <= CacheCapacity

\* a set of a key the full cache did not hold has just returned, with no
\* get before it
CacheSizeBoundedWitness ==
  /\ lastCacheOp.op = "set" /\ lastCacheOp.isNew /\ lastCacheOp.wasFull
  /\ CacheSize(cache) = CacheCapacity
  /\ lastCacheOp.prevHit = None

\* the units of the batches, in order
RECURSIVE FlatBatches(_)
FlatBatches(bs) == IF bs = <<>> THEN <<>> ELSE Head(bs) \o FlatBatches(Tail(bs))

\* C12: every batch of two or more units that createBatches produces has
\* a total size (unit texts plus one delimiter between neighbours) of at
\* most maxCharactersPerBatch.
BatchSizeBound ==
  fnOutput.called =>
    \A k \in 1..Len(fnOutput.value) :
      Len(fnOutput.value[k]) >= 2 => Len(BatchText(fnOutput.value[k])) <= MaxCharactersPerBatch

\* a batch of two units fills the budget exactly and the next unit went
\* into a batch of its own
BatchSizeBoundWitness ==
  /\ fnOutput.called
  /\ Len(fnOutput.value) >= 2
  /\ Len(fnOutput.value[1]) = 2
  /\ Len(BatchText(fnOutput.value[1])) = MaxCharactersPerBatch

\* C13: the batches hold the units in their input order; a unit within the
\* budget is whole in exactly one batch; every batch that holds a piece of
\* a unit larger than the budget holds nothing else.
BatchesPartition ==
  fnOutput.called =>
    LET flat == FlatBatches(fnOutput.value)
    IN  /\ {flat[k].element : k \in 1..Len(flat)} = 1..Len(fnInput)
        /\ \A j, k \in 1..Len(flat) : j < k => flat[j].element <= flat[k].element
        /\ \A i \in 1..Len(fnInput) :
             IF Len(fnInput[i]) <= MaxCharactersPerBatch
             THEN /\ Cardinality({k \in 1..Len(flat) : flat[k].element = i}) = 1
                  /\ \A k \in 1..Len(flat) :
                       flat[k].element = i =>
                         flat[k].placeholderText = fnInput[i] /\ flat[k].chunkId = 0
             ELSE \A b \in 1..Len(fnOutput.value) :
                    (\E k \in 1..Len(fnOutput.value[b]) : fnOutput.value[b][k].element = i) =>
                      Len(fnOutput.value[b]) = 1

\* an oversized unit between two units within the budget was split into
\* several batches
BatchesPartitionWitness ==
  /\ fnOutput.called
  /\ Len(fnInput) = 3
  /\ Len(fnInput[1]) <= MaxCharactersPerBatch
  /\ Len(fnInput[2]) > MaxCharactersPerBatch
  /\ Len(fnInput[3]) <= MaxCharactersPerBatch
  /\ Len(fnOutput.value) >= 4

\* C14: every chunk of a split unit has at most 90% of
\* maxCharactersPerBatch characters.
ChunksWithinNinetyPercent ==
  fnOutput.called =>
    \A b \in 1..Len(fnOutput.value) :
      \A k \in 1..Len(fnOutput.value[b]) :
        fnOutput.value[b][k].chunkId # 0 =>
          Len(fnOutput.value[b][k].placeholderText) * 10 <= MaxCharactersPerBatch * 9

\* C15: decoding the encoding of a markup string with the map of that
\* encoding gives back the markup string.
RoundTrip ==
  (fnOutput.called /\ fnOutput.value.decoded) => fnOutput.value.html = fnInput

\* no tag occurrence in g: no "<" followed by a character other than ">"
\* and a later ">"
NoTag(g) ==
  ~\E i \in 1..Len(g) :
     /\ g[i] = "<"
     /\ i + 1 <= Len(g) /\ g[i + 1] # ">"
     /\ \E j \in (i + 2)..Len(g) : g[j] = ">"

\* first position of pat in s, 0 when there is none
FirstIndexOf(s, pat) ==
  LET at == {i \in 1..Len(s) : MatchAt(s, i, pat)}
  IN  IF at = {} THEN 0 ELSE CHOOSE i \in at : \A j \in at : i <= j

\* text and html are the same but for the placeholders of the entries k,
\* k + 1, ... standing, in this order, where html has their originals, and
\* the stretches in between hold no tag
RECURSIVE Aligned(_, _, _, _)
Aligned(text, html, map, k) ==
  IF k > Len(map) THEN text = html /\ NoTag(html)
  ELSE LET ph == map[k].placeholder
           o == map[k].original
           at == FirstIndexOf(text, ph)
       IN  /\ at > 0
           /\ SubSeq(text, 1, at - 1) = SubSeq(html, 1, at - 1)
           /\ NoTag(SubSeq(html, 1, at - 1))
           /\ MatchAt(html, at, o)
           /\ Aligned(SubSeq(text, at + Len(ph), Len(text)),
                      SubSeq(html, at + Len(o), Len(html)), map, k + 1)

\* C16: the k-th tag occurrence (counted from 0) gets a placeholder ending
\* in _k>, the placeholders are pairwise distinct, the map holds one entry
\* per tag occurrence with the verbatim tag, and the text between the tags
\* is unchanged.
PlaceholdersNumbered ==
  fnOutput.called =>
    LET text == fnOutput.value.text
        map == fnOutput.value.map
    IN  /\ \A k \in 1..Len(map) :
             LET ph == map[k].placeholder
                 tail == <<"_">> \o ToDigits(k - 1) \o <<">">>
             IN  /\ Len(ph) > Len(tail)
                 /\ SubSeq(ph, Len(ph) - Len(tail) + 1, Len(ph)) = tail
                 /\ Head(map[k].original) = "<"
                 /\ map[k].original[Len(map[k].original)] = ">"
        /\ \A j, k \in 1..Len(map) :
             j # k => map[j].placeholder # map[k].placeholder
        /\ Aligned(text, fnInput, map, 1)

\* three tags, two of them the same tag
PlaceholdersNumberedWitness ==
  /\ fnOutput.called
  /\ Len(fnOutput.value.map) = 3
  /\ fnOutput.value.map[1].original = fnOutput.value.map[3].original

\* C17: an operation that clearQueue() dropped is never dispatched; after
\* clearQueue(), until the next execute or updateRPS, the queue is empty,
\* the timer is off and nothing more is dispatched; an operation dispatched
\* before it still settles its promise, with the outcome of the operation.
ClearQueueDrops ==
  /\ cleared.dropped \cap DispatchedOps = {}
  /\ cleared.halted =>
       /\ queue = <<>>
       /\ ~intervalId
       /\ Len(dispatched) = cleared.count
  /\ \A s \in settled : s.op \in DispatchedOps /\ s.state = FnOutcome(s.op)

\* clearQueue() dropped a backlog while an operation was running; that
\* operation settled afterwards and a later operation was dispatched
ClearQueueDropsWitness ==
  /\ cleared.dropped # {}
  /\ cleared.inFlight \cap SettledOps # {}
  /\ Len(dispatched) > cleared.count

\* C18: after updateRPS(r) the dispatches follow r: with operations
\* queued, updateRPS itself and every timer callback dispatch the next
\* operation exactly when 1000 / r ms have passed since the last dispatch,
\* r being the rps now in force; no operation is dispatched twice and no
\* settled promise changes.
UpdateTakesEffect ==
  [][/\ \A r \in RpsValues :
          (UpdateRPS(r) /\ queue # <<>>) =>
            /\ (Len(dispatched') = Len(dispatched) + 1)
                  <=> (lastProcessTime = 0 \/ (now - lastProcessTime) * r >= 1000)
            /\ settled' = settled
            /\ \A i \in 1..Len(dispatched) : dispatched'[i] = dispatched[i]
     /\ (IntervalTick /\ queue # <<>>) =>
          ((Len(dispatched') = Len(dispatched) + 1)
             <=> ((now - lastProcessTime) * rps >= 1000))
     /\ \A i, j \in 1..Len(dispatched') :
          i # j => dispatched'[i].op # dispatched'[j].op]_vars

\* with an operation queued the rps was raised, and the next dispatch came
\* sooner after the previous one than the old rps allows
UpdateTakesEffectWitness ==
  /\ Len(dispatched) >= 2
  /\ dispatched[2].rps > dispatched[1].rps
  /\ (dispatched[2].time - dispatched[1].time) * dispatched[1].rps < 1000
  /\ 1 \notin SettledOps

\* C19: a failed batch or unit does not end the pass: the requests of the
\* batches are made one after the other up to the last batch of the pass,
\* and the per-unit loop of the catch block calls processSingleItem for
\* every unit of its batch, whatever became of the units before.
FailuresDoNotAbort ==
  /\ lastPass.kind = "batch" =>
       LET n == IF batches = <<>> THEN loop.planned
                ELSE loop.planned - Len(batches) + 1
       IN  loop.requested = [i \in 1..n |-> i]
  /\ loop.index > 0 => loop.attempted = SubSeq(loop.units, 1, loop.index)
  /\ loop.done => loop.attempted = loop.units

\* the first batch threw, its first unit failed in the per-unit loop and
\* its second unit was translated there; the second batch was requested
\* and failed in transport, and the pass has ended
FailuresDoNotAbortWitness ==
  /\ pc = "idle"
  /\ loop.done
  /\ Len(loop.units) = 2
  /\ dataFailed[loop.units[1]]
  /\ dataTranslated[loop.units[2]]
  /\ loop.requested = <<1, 2>>
  /\ transportFailed # {}

\* s holds sub as a substring
ContainsText(s, sub) ==
  \E i \in 1..(Len(s) - Len(sub) + 1) : SubSeq(s, i, i + Len(sub) - 1) = sub

\* C20: the promise of translateText is never rejected; when fetch rejects
\* or the response has a non-success status it is fulfilled with an empty
\* translatedText and an error, and for a non-success response the error
\* holds the message of the body's error object when the body has one and
\* the status code and status text otherwise.
TranslateTextNeverRejects ==
  fnOutput.called =>
    /\ fnOutput.value.state = "fulfilled"
    /\ (fnInput.rejects \/ ~fnInput.ok) =>
         fnOutput.value.translatedText = <<>> /\ fnOutput.value.hasError
    /\ (~fnInput.rejects /\ ~fnInput.ok) =>
         IF fnInput.body.shape = "errorMessage"
         THEN ContainsText(fnOutput.value.error, fnInput.body.message)
         ELSE ContainsText(fnOutput.value.error,
                           ToDigits(fnInput.status) \o <<" ">>
                             \o fnInput.statusText)

\* a 429 response whose body carries a structured message has been
\* turned into an error that ends with that message
TranslateTextNeverRejectsWitness ==
  /\ fnOutput.called
  /\ ~fnInput.rejects /\ fnInput.status = 429
  /\ fnInput.body.shape = "errorMessage"
  /\ fnInput.body.message = <<"q", "u", "o", "t", "a">>
  /\ fnOutput.value.error = ApiRequestFailed \o <<"q", "u", "o", "t", "a">>

\* the placeholder text prepareTranslationItems made of the element
EncodedText(e) == htmlToPlaceholders(dataOriginalHtml[e]).text

\* the element's fragment was over the budget and has been translated
ReassembledElement(e) ==
  /\ dataOriginalHtml[e] # None
  /\ dataTranslated[e]
  /\ Len(EncodedText(e)) > MaxCharactersPerBatch

\* C21: once the chunks of an oversized fragment have been joined and
\* applied, the lookup of createBatches for that fragment (its encoded
\* text and the target language) hits, and what it returns is the joined
\* translation an element with that fragment now shows.
ReassemblyCached ==
  \A e \in Elements :
    ReassembledElement(e) =>
      LET r == CacheGet(cache, EncodedText(e), TargetLanguage)
      IN  /\ Truthy(r.value)
          /\ \E d \in Elements :
               /\ ReassembledElement(d)
               /\ dataOriginalHtml[d] = dataOriginalHtml[e]
               /\ innerHTML[d] =
                    placeholdersToHtml(r.value,
                                       htmlToPlaceholders(dataOriginalHtml[d]).map)

\* position i of text is a sentence end: a terminator followed by
\* whitespace or by the end of the text
SentenceEndAt(text, i) ==
  /\ IsTerminator(text[i])
  /\ i = Len(text) \/ IsSpace(text[i + 1])

\* a sentence of the text ends within the budget: a sentence end after at
\* least one character that is not a terminator
UsableBoundary(text) ==
  \E i \in 1..Len(text) :
    /\ i <= MaxCharactersPerBatch
    /\ SentenceEndAt(text, i)
    /\ \E j \in 1..(i - 1) : ~IsTerminator(text[j])

\* the chunk stops at a sentence end of the text: its last two characters
\* (its only one, for a chunk of one character) stand in the text right
\* before a sentence end
EndsAtSentenceEnd(chunk, text) ==
  /\ chunk # <<>>
  /\ LET n == IF Len(chunk) >= 2 THEN 2 ELSE 1
     IN  \E i \in n..Len(text) :
           /\ SubSeq(chunk, Len(chunk) - n + 1, Len(chunk)) = SubSeq(text, i - n + 1, i)
           /\ SentenceEndAt(text, i)

ExecuteSettlesAsFn ==
  /\ \A s \in settled :
       /\ s.op \in DispatchedOps
       /\ s.value = FnEnd(s.op).value
       /\ s.state = IF FnEnd(s.op).kind = "resolves" THEN "fulfilled" ELSE "rejected"
  /\ \A i, j \in 1..Len(dispatched) : dispatched[i].op = dispatched[j].op => i = j
  /\ \A s, t \in settled : s.op = t.op => s = t

\* three operations have run: the first resolved, the second rejected and
\* the third threw, and every promise has settled
ExecuteSettlesAsFnWitness ==
  /\ Len(dispatched) = 3
  /\ SettledOps = {1, 2, 3}
  /\ \E s \in settled : s.op = 1 /\ s.state = "fulfilled"
  /\ \E s \in settled : s.op = 2 /\ s.state = "rejected"
  /\ \E s \in settled : s.op = 3 /\ s.state = "rejected" /\ FnEnd(3).kind = "throws"

\* every operation has been submitted, ms milliseconds have passed since
\* and the timer callbacks due by then have run
BurstAfter(ms) ==
  /\ nextOp > BurstOps
  /\ now >= StartTime + ms
  /\ ~(intervalId /\ now >= nextTick)

\* C24: with rps = 2 and four operations submitted together to a fresh
\* limiter, two operations have been dispatched 50 ms later, three after
\* 500 ms more and four after another 500 ms.
BurstSchedule ==
  /\ BurstAfter(50) => Len(dispatched) >= 2
  /\ BurstAfter(550) => Len(dispatched) >= 3
  /\ BurstAfter(1050) => Len(dispatched) >= 4

\* C25: a set for a pair that is cached replaces the stored value and
\* removes nothing, full cache or not: size() is the same afterwards, the
\* pair reads the new value and every other pair reads what it read before.
UpdateKeepsEntries ==
  [][(lastCacheOp'.op = "set" /\ ~lastCacheOp'.isNew) =>
       /\ CacheSize(cache') = CacheSize(cache)
       /\ CacheGetNoRefresh(cache', fnInput'[1], fnInput'[2]).value = fnInput'[3]
       /\ \A other \in TouchInputs \ {<<fnInput'[1], fnInput'[2]>>} :
            CacheGetNoRefresh(cache', other[1], other[2]).value
              = CacheGetNoRefresh(cache, other[1], other[2]).value]_<<cache, fnInput>>

\* the cache is full and the last operation was a set for a pair that was
\* in it
UpdateKeepsEntriesWitness ==
  /\ lastCacheOp.op = "set"
  /\ ~lastCacheOp.isNew
  /\ lastCacheOp.wasFull
  /\ CacheSize(cache) = CacheCapacity

\* C26: get answers for a pair only when set was called with that text
\* and that language: a pair that was not stored since the cache was last
\* empty reads null, whatever was stored for other pairs.
DistinctPairsDistinctKeys ==
  \A in \in KeyInputs \cup CacheInputs :
    CacheGetNoRefresh(cache, in[1], in[2]).value # None => in \in stored

\* the translator stored the element's markup or changed it
Touched(e) == dataOriginalHtml[e] # None \/ innerHTML[e] # page[e]

passVars == <<calls, pc, requests, innerHTML, dataTranslated, dataFailed>>

\* the element's markup and attributes are the same after the step
Untouched(e) ==
  /\ innerHTML'[e] = innerHTML[e]
  /\ dataTranslated'[e] = dataTranslated[e]
  /\ IF dataOriginalHtml[e] = None
     THEN dataOriginalHtml'[e] = None
     ELSE dataOriginalHtml'[e] # None /\ dataOriginalHtml'[e] = dataOriginalHtml[e]
  /\ dataFailed'[e] = dataFailed[e]

\* C28: an element that is empty, holds only whitespace or is marked
\* data-translated when translateElements is called is in no batch and is
\* left as it is, by the call and by the responses of the pass; a call in
\* which every element is of that kind sends no request.
SkippedNeverUnits ==
  [][/\ (pc = "idle" /\ calls' = calls + 1) =>
          LET els == lastPass'.els
              skipped == {e \in Range(els) :
                            dataTranslated[e] \/ Trim(innerHTML[e]) = <<>>}
          IN  /\ \A e \in skipped :
                   /\ \A i \in 1..Len(batches') : \A j \in 1..Len(batches'[i]) :
                        batches'[i][j].element # e
                   /\ Untouched(e)
              /\ Range(els) \subseteq skipped =>
                   requests' = <<>> /\ batches' = <<>> /\ pc' = "idle"
     /\ pc = "batch" =>
          \A e \in Elements :
            (\A j \in 1..Len(Head(batches)) : Head(batches)[j].element # e)
              => Untouched(e)]_passVars

\* translateElements was called with a whitespace-only element and an
\* element translated before, made a unit of neither and sent a request
\* for another element
SkippedNeverUnitsWitness ==
  /\ lastPass.kind = "batch"
  /\ requests # <<>>
  /\ \E e \in Range(lastPass.els) : Trim(page[e]) = <<>> /\ e \notin lastPass.prepared
  /\ \E e \in Range(lastPass.els) :
       dataTranslated[e] /\ e \notin lastPass.prepared /\ innerHTML[e] # page[e]

\* the text with every token put as tag: a placeholder of the map as its
\* original tag, a token of no map as the bare tag of its name
Expected(in) ==
  Concat([k \in 1..Len(in.tokens) |->
            LET t == in.tokens[k]
            IN  IF t.entry # 0 THEN in.map[t.entry].original
                ELSE IF t.kind = "leftover" THEN t.bare ELSE t.text])

\* C29: a text of plain parts and placeholder-shaped tokens that match no key
\* of the map comes back with each such token as the bare tag of its name,
\* the number dropped.
LeftoversBecomeBareTags ==
  (fnOutput.called /\ \A k \in 1..Len(fnInput.tokens) : fnInput.tokens[k].entry = 0)
    => fnOutput.value = Expected(fnInput)

\* C30: a text of plain parts and placeholders of the map, each as it was or
\* with a space after '<', before '>' or both, comes back with every
\* placeholder replaced by the original tag of its entry.
VariantsReplaced ==
  (fnOutput.called
     /\ \A k \in 1..Len(fnInput.tokens) : fnInput.tokens[k].kind # "leftover")
    => fnOutput.value = Expected(fnInput)

\* C31: the promise of an operation that clearQueue() dropped from the queue
\* is never settled, neither fulfilled nor rejected, whatever happens later.
DroppedNeverSettle == \A op \in cleared.dropped : \A s \in settled : s.op # op

\* clearQueue() dropped an operation; since then a later operation was
\* submitted, dispatched and settled, and the clock has reached its end
DroppedNeverSettleWitness ==
  /\ cleared.dropped # {}
  /\ now = MaxTime
  /\ \E s \in settled : \A op \in cleared.dropped : s.op > op

\* the unit is within the budget, so createBatches does not split it
WithinBudget(text) == Len(text) <= MaxCharactersPerBatch

\* C32: createBatches fills its batches: a unit within the budget goes into
\* the batch of the unit before it whenever the texts of that batch, the
\* delimiter and the unit together are within the budget, and it starts a
\* new batch only when they are over it (or when the unit before it was
\* split); a batch never holds more than the budget that way.
GreedyBatches ==
  fnOutput.called =>
    \A b \in 1..Len(fnOutput.value) :
      LET batch == fnOutput.value[b]
          last == batch[Len(batch)].element
      IN  /\ Len(batch) >= 2 => Len(BatchText(batch)) <= MaxCharactersPerBatch
          /\ (/\ last < Len(fnInput)
              /\ WithinBudget(fnInput[last])
              /\ WithinBudget(fnInput[last + 1]))
               => Len(BatchText(batch)) + Len(DEFAULT_DELIMITER) + Len(fnInput[last + 1])
                    > MaxCharactersPerBatch

\* two units share a batch that is not full, and the third unit, which
\* would not fit with them, starts the next batch
GreedyBatchesWitness ==
  /\ fnOutput.called
  /\ Len(fnInput) = 3
  /\ \A i \in 1..3 : WithinBudget(fnInput[i])
  /\ Len(fnOutput.value) = 2
  /\ Len(fnOutput.value[1]) = 2
  /\ Len(BatchText(fnOutput.value[1])) < MaxCharactersPerBatch

\* C34: a set that updates a cached key counts as a touch: when the next
\* operation is a set of a new key into the full cache, the key just
\* updated is not the one evicted and stays in the cache.
UpdateIsTouch ==
  [][(/\ lastCacheOp.op = "set" /\ ~lastCacheOp.isNew
      /\ lastCacheOp'.op = "set" /\ lastCacheOp'.isNew /\ lastCacheOp'.wasFull
      /\ CacheCapacity >= 2)
       => /\ generateKey(fnInput[1], fnInput[2]) \notin lastCacheOp'.evicted
          /\ generateKey(fnInput[1], fnInput[2]) \in CacheKeys(cache')]_cache

\* C35: without clearQueue, every operation handed to execute is dispatched
\* in the end, whether or not the operations before it have ended.
EventuallyDispatched ==
  \A op \in 1..MaxOps : (nextOp > op) ~> (op \in DispatchedOps)

\* every operation has been dispatched although none of them has ended
EventuallyDispatchedWitness ==
  /\ DispatchedOps = 1..MaxOps
  /\ settled = {}
  /\ now > SubmitBy

\* C36: with configureApi({rps}) called between requests, any two
\* consecutive fetches are still at least 1000 / rps ms apart, rps being
\* the one in force at the later fetch.
RateBoundSurvivesConfigure ==
  \A i \in 2..Len(dispatched) :
    IntervalElapsed(dispatched[i].time - dispatched[i - 1].time, dispatched[i].rps)

\* the text without its white space
WithoutSpaces(text) == SelectSeq(text, LAMBDA c : ~IsSpace(c))

\* C37: the chunks of splitOversizedItem, put together in chunkIndex order,
\* are the encoded text of the unit up to white space: nothing but white
\* space is lost.
SplitLosesNothing ==
  fnOutput.called =>
    WithoutSpaces(Concat(fnOutput.value)) = WithoutSpaces(htmlToPlaceholders(fnInput).text)

\* C38: whenever no response is outstanding, every element shows the markup
\* the page was loaded with or carries it in data-original-html, also when
\* restorePage ran while a batch was in flight.
RestoreSafeInFlight ==
  pc = "idle" =>
    \A e \in Elements :
      \/ innerHTML[e] = page[e]
      \/ dataOriginalHtml[e] # None /\ dataOriginalHtml[e] = page[e]

\* C39: after restorePage, as long as no element has been prepared again,
\* no element carries data-translated, data-original-html or
\* data-translation-failed, so that the next pass takes the elements again.
RestoreClearsState ==
  (/\ fnOutput.called
   /\ pc = "idle"
   /\ \A e \in Elements : dataOriginalHtml[e] = None)
    => \A e \in Elements : ~dataTranslated[e] /\ ~dataFailed[e]

(***************************************************************************)
(* content.ts: translatePage, the translation observer and their passes    *)
(***************************************************************************)
\* the 'translate' messages the content script receives
MaxMessages == 2

\* getTranslatableElements: the shortest text an element is taken with
MinTextLength == 10

\* the first two elements are long enough to be taken, the second with
\* markup; together they do not fit one batch; the others are too short
ContentPage ==
  PageOf(<<<<"a", "a", "a", "a", "a", "a", "a", "a", "a", ".">>,
           <<"<", "b", ">", "b", "b", "b", "b", "b", "b", "b", "b", "b", ".",
             "<", "/", "b", ">">>>>)

InitContent ==
  /\ IdleCache /\ IdleRateLimiter /\ IdleFn /\ IdleContent
  /\ page = ContentPage
  /\ FreshPage

\* what translateText resolves to for a batch of the page: a failed
\* request, or one segment
ContentResponses ==
  {ErrorResponse, [error |-> FALSE, translatedText |-> <<"X">>]}

\* position i of the markup lies inside a tag
InTag(html, i) ==
  \E j \in 1..i : html[j] = "<" /\ \A k \in j..(i - 1) : html[k] # ">"

\* element.textContent of markup without entities
RECURSIVE TextContentFrom(_, _)
TextContentFrom(html, i) ==
  IF i > Len(html) THEN <<>>
  ELSE (IF InTag(html, i) THEN <<>> ELSE <<html[i]>>) \o TextContentFrom(html, i + 1)

TextContent(html) == TextContentFrom(html, 1)

\* the elements of a set in document order
InDocumentOrder(S) == SelectSeq([e \in Elements |-> e], LAMBDA e : e \in S)

\* getTranslatableElements(document.body): the candidates that carry
\* neither data-translated nor data-original-html and whose trimmed text
\* has MinTextLength characters or more
Translatable(e) ==
  /\ ~dataTranslated[e]
  /\ dataOriginalHtml[e] = None
  /\ Len(Trim(TextContent(innerHTML[e]))) >= MinTextLength

getTranslatableElements == InDocumentOrder({e \in Elements : Translatable(e)})

\* a guard that lets every call through
NeverTranslating == FALSE

\* the test translatePage starts with
AlreadyTranslating == isTranslating

\* the 'translate' messages received so far: the calls that went on to
\* read the settings and the calls turned away
Rejected == {i \in 1..Len(replies) : replies[i] = "already_translating"}

MessagesSoFar == storageReads + Cardinality(Rejected)

\* a 'translate' message arrives: translatePage() up to its first await.
\* A call made while isTranslating is set returns at once.
TranslateMessage ==
  /\ MessagesSoFar < MaxMessages
  /\ IF AlreadyTranslating
     THEN /\ replies' = Append(replies, "already_translating")
          /\ UNCHANGED <<isTranslating, translatePageAt, storageReads>>
     ELSE /\ isTranslating' = TRUE
          /\ translatePageAt' = "storage"
          /\ storageReads' = storageReads + 1
          /\ UNCHANGED replies
  /\ UNCHANGED <<translationObserver, observers, translatedElements, passes, passLog,
                 sentLog, cacheVars, rlVars, btVars, fnVars>>

\* translateElements(els, settings) of the BatchTranslator of translatePage
\* (by = 0) or of observer by, up to its first await: as TranslateElements,
\* with the batches kept by the call
StartPass(by, els) ==
  LET items == prepareTranslationItems(els)
      prepared == ItemElements(items)
      looked == CacheLoop(items, cache, <<>>, <<>>, {})
      hits == looked.hits
      hitEls == ItemElements([i \in 1..Len(hits) |-> hits[i].item])
      planned == BatchLoop(looked.uncachedItems, <<>>, <<>>, 0, nextChunkId)
      id == Len(passLog) + 1
  IN  /\ dataOriginalHtml' =
           [e \in Elements |-> IF e \in prepared THEN innerHTML[e]
                               ELSE dataOriginalHtml[e]]
      /\ cache' = looked.cache
      /\ innerHTML' =
           [e \in Elements |->
              IF e \in hitEls
              THEN LET hit == HitFor(hits, e)
                   IN  placeholdersToHtml(hit.value, hit.item.placeholderMap)
              ELSE innerHTML[e]]
      /\ dataTranslated' = [e \in Elements |-> dataTranslated[e] \/ e \in hitEls]
      /\ whole' = [e \in Elements |->
                     IF e \in hitEls THEN whole[e] \cup {HitFor(hits, e).value}
                     ELSE whole[e]]
      /\ nextChunkId' = planned.nextId
      /\ passLog' = Append(passLog, [by |-> by, els |-> els, prepared |-> prepared])
      /\ LET first == planned.batches
         IN  IF first = <<>>
             THEN UNCHANGED <<passes, sentLog>>
             ELSE /\ passes' = Append(passes, [id |-> id, by |-> by, els |-> els,
                                               batches |-> first])
                  /\ sentLog' = Append(sentLog, [pass |-> id,
                                                 elements |-> ItemElements(first[1])])

\* translatePage after translateElements resolved: the visible elements are
\* marked, the call returns 'completed' and the finally block clears the flag
PageCompleted(visibleElements) ==
  /\ translatedElements' = translatedElements \cup Range(visibleElements)
  /\ replies' = Append(replies, "completed")
  /\ isTranslating' = FALSE
  /\ translatePageAt' = "none"

NewObserver(translatable) ==
  [observed |-> Range(translatable), connected |-> TRUE, pendingElements |-> <<>>,
   batchTimeout |-> FALSE]

\* chrome.storage.local.get resolves.  Without an API key translatePage
\* throws, returns 'error' and clears the flag.  With one, the current
\* observer is disconnected, a new one created and handed the translatable
\* elements, and those in the viewport (visible) given to translateElements.
StorageResult(apiKey, visible) ==
  /\ translatePageAt = "storage"
  /\ IF ~apiKey
     THEN /\ replies' = Append(replies, "error")
          /\ isTranslating' = FALSE
          /\ translatePageAt' = "none"
          /\ UNCHANGED <<translationObserver, observers, translatedElements, passes,
                         passLog, sentLog, cache, innerHTML, dataTranslated,
                         dataOriginalHtml, whole, nextChunkId>>
     ELSE LET translatable == getTranslatableElements
              visibleElements == SelectSeq(translatable, LAMBDA e : e \in visible)
          IN  /\ observers' =
                   Append([o \in DOMAIN observers |->
                             IF o = translationObserver
                             THEN [observers[o] EXCEPT !.connected = FALSE]
                             ELSE observers[o]],
                          NewObserver(translatable))
              /\ translationObserver' = Len(observers) + 1
              /\ StartPass(0, visibleElements)
              /\ IF passes' = passes
                 THEN PageCompleted(visibleElements)
                 ELSE /\ translatePageAt' = "elements"
                      /\ UNCHANGED <<isTranslating, replies, translatedElements>>
  /\ UNCHANGED <<storageReads, recency, lastCacheOp, stored, rlVars, dataFailed,
                 chunkTranslations, pc, batches, pending, calls, page, requests,
                 lastPass, lastResponse, chunkSegments, transportFailed, loop, fnVars>>

\* the callback of observer o with the entries that intersect: those
\* neither in translatedElements nor data-translated are added to the set,
\* lose data-translation-failed, and wait for the timeout, which is set anew
ObserverCallback(o, entries) ==
  /\ o \in DOMAIN observers
  /\ observers[o].connected
  /\ entries \subseteq observers[o].observed
  /\ LET newVisibleElements ==
           InDocumentOrder({e \in entries :
                              e \notin translatedElements /\ ~dataTranslated[e]})
     IN  /\ newVisibleElements # <<>>
         /\ translatedElements' = translatedElements \cup Range(newVisibleElements)
         /\ dataFailed' = [e \in Elements |->
                             dataFailed[e] /\ e \notin Range(newVisibleElements)]
         /\ observers' = [observers EXCEPT
                            ![o].pendingElements = @ \o newVisibleElements,
                            ![o].batchTimeout = TRUE]
  /\ UNCHANGED <<isTranslating, translatePageAt, translationObserver, passes, replies,
                 storageReads, passLog, sentLog, cacheVars, rlVars, innerHTML,
                 dataTranslated, dataOriginalHtml, chunkTranslations, nextChunkId, pc,
                 batches, pending, calls, page, requests, lastPass, lastResponse,
                 chunkSegments, whole, transportFailed, loop, fnVars>>

\* the timeout of observer o fires: processPendingBatch hands the pending
\* elements to translateElements.  The timer of a disconnected observer
\* fires as well.
BatchTimeout(o) ==
  /\ o \in DOMAIN observers
  /\ observers[o].batchTimeout
  /\ IF observers[o].pendingElements = <<>>
     THEN UNCHANGED <<passes, passLog, sentLog, cache, innerHTML, dataTranslated,
                      dataOriginalHtml, whole, nextChunkId>>
     ELSE StartPass(o, observers[o].pendingElements)
  /\ observers' = [observers EXCEPT ![o].pendingElements = <<>>,
                                    ![o].batchTimeout = FALSE]
  /\ UNCHANGED <<isTranslating, translatePageAt, translationObserver, translatedElements,
                 replies, storageReads, recency, lastCacheOp, stored, rlVars, dataFailed,
                 chunkTranslations, pc, batches, pending, calls, page, requests,
                 lastPass, lastResponse, chunkSegments, transportFailed, loop, fnVars>>

WithoutPass(ps, p) == [i \in 1..(Len(ps) - 1) |-> IF i < p THEN ps[i] ELSE ps[i + 1]]

\* the response of the batch pass p awaits: processBatch after its await,
\* as BatchResponse; then the pass sends its next batch or resolves, and
\* translatePage goes on when the pass is its own
PassResponse(p, response) ==
  /\ p \in DOMAIN passes
  /\ LET pass == passes[p]
         batch == Head(pass.batches)
         rest == Tail(pass.batches)
         ok == ~response.error /\ Truthy(response.translatedText)
         translations == IF ok THEN SplitResponse(response.translatedText) ELSE <<>>
         st == IF ok THEN ApplyLoop(BtState, batch, translations, 1) ELSE BtState
     IN  /\ cache' = st.cache
         /\ innerHTML' = st.innerHTML
         /\ dataTranslated' = st.dataTranslated
         /\ dataFailed' = st.dataFailed
         /\ chunkTranslations' = st.chunkTranslations
         /\ chunkSegments' = st.chunkSegments
         /\ whole' = st.whole
         /\ IF rest # <<>>
            THEN /\ passes' = [passes EXCEPT ![p].batches = rest]
                 /\ sentLog' = Append(sentLog, [pass |-> pass.id,
                                                elements |-> ItemElements(rest[1])])
                 /\ UNCHANGED <<isTranslating, translatePageAt, replies,
                                translatedElements>>
            ELSE /\ passes' = WithoutPass(passes, p)
                 /\ UNCHANGED sentLog
                 /\ IF pass.by = 0
                    THEN PageCompleted(pass.els)
                    ELSE UNCHANGED <<isTranslating, translatePageAt, replies,
                                     translatedElements>>
  /\ UNCHANGED <<translationObserver, observers, storageReads, passLog, recency,
                 lastCacheOp, stored, rlVars, dataOriginalHtml, nextChunkId, pc,
                 batches, pending, calls, page, requests, lastPass, lastResponse,
                 transportFailed, loop, fnVars>>

\* the content script between page load and a restore
NextContent ==
  \/ TranslateMessage
  \/ \E apiKey \in BOOLEAN, visible \in SUBSET Range(getTranslatableElements) :
       StorageResult(apiKey, visible)
  \/ \E o \in DOMAIN observers :
       \E entries \in SUBSET observers[o].observed : ObserverCallback(o, entries)
  \/ \E o \in DOMAIN observers : BatchTimeout(o)
  \/ \E p \in DOMAIN passes, response \in ContentResponses : PassResponse(p, response)

SpecContent == InitContent /\ [][NextContent]_vars

\* translatePage calls whose translateElements call awaits a response
PagePasses == {p \in DOMAIN passes : passes[p].by = 0}

\* C33: a 'translate' message that arrives while a translatePage call is in
\* progress is answered 'already_translating', reads no settings, creates no
\* observer and starts no translateElements call; at most one
\* translateElements call of translatePage awaits a response at any time.
OneTranslatePage ==
  [][/\ (isTranslating /\ MessagesSoFar' = MessagesSoFar + 1) =>
          /\ replies' = Append(replies, "already_translating")
          /\ storageReads' = storageReads
          /\ observers' = observers
          /\ translationObserver' = translationObserver
          /\ passLog' = passLog
          /\ passes' = passes
     /\ Cardinality(PagePasses') <= 1
     /\ isTranslating' <=> translatePageAt' # "none"]_contentVars

\* a message was turned away while the first call awaited its batch
\* response, and that call has completed since
OneTranslatePageWitness ==
  /\ replies = <<"already_translating", "completed">>
  /\ ~isTranslating
  /\ storageReads = 1
  /\ Len(observers) = 1
  /\ Len(sentLog) > 0

====
